---- MODULE Spec2Model ----
(***************************************************************************)
(* BracketGPT: a model of the two prediction pipelines of the repository,  *)
(*   backend/data/BracketGPT_Unified_Pipeline.py        ("unified", U...)  *)
(*   backend/bracketgpt-update-v2/scripts/bracketgpt_pipeline.py ("v2")    *)
(*                                                                         *)
(* Numbers.  The pipelines compute in floating point; the model computes   *)
(* in fixed point.  Ratings are hundredths of a rating point, the rating   *)
(* engine's expectations and the seed probabilities are thousandths, the   *)
(* step-2 probabilities are millionths.  Divisions truncate.               *)
(***************************************************************************)
EXTENDS Integers, Sequences, FiniteSets, TLC

VARIABLES
    variant,      \* which pipeline's compute_elo runs: "unified" or "v2"
    regular,      \* the regular-season game table (its rows; row order is not kept)
    elo,          \* compute_elo: the rating dictionary, team -> rating
    season_elos,  \* unified compute_elo: the per-season snapshots
    pc,           \* position in compute_elo / main
    season,       \* compute_elo: the season of the loop
    pending,      \* compute_elo: rows of the season not yet applied
    applied,      \* the games applied so far, in order, with the update made
    trn,          \* the tournament game table
    seeds,        \* the seed table, <<season, team>> -> seed number
    season_features, \* v2: season -> team -> the team's season features
    kenpom_by_team,  \* v2: team -> composite ratings (2025 only)
    train_df,     \* v2 build_training_data: the training rows
    feature_cols, \* v2 main: the feature columns of train_df
    seed_pair,    \* seed probability: the seeds <<s1, s2>> of a matchup
    seed_probs,   \* seed probability: the values computed for the pair, or None
    rank_row,     \* archetype engine: a team's row of efficiency and tempo ranks
    archetype,    \* archetype engine: the label assigned to the row, or None
    pred,         \* step 2: a prediction record of chatbot_predictions_base.json
    lookup,       \* step 2: the team-summary rows of the record's two teams
    step1_pred,   \* step 2: the record as step 1 exported it
    runs,         \* step 2: executions of run_step2 so far
    team_stats,   \* unified: the rows of the table compute_season_stats returns
    kenpom,       \* unified: the rows of the composite-ratings table, or None
    td,           \* unified: the matchup table build_matchup_features returns
    arch_matrix,  \* unified: the archetype matchup matrix it returns with the table
    test_df,      \* unified train_model: the held-out rows, with the models' answers
    fits,         \* the fit calls made while training, in order
    predictions,  \* the prediction records step 1 produces, in order
    player_df,    \* run_step2: the player table fetch_player_stats returned
    injury_df,    \* run_step2: the injury table fetch_injuries_espn returned
    team_summary, \* run_step2: the rows of build_team_summary
    fetch_failed  \* run_step2: the fetches whose request or parsing raised

eloVars == <<elo, season_elos, season, pending, applied>>

inputVars == <<trn, seeds, season_features, kenpom_by_team>>

pipeVars == <<variant, regular, pc, eloVars, inputVars, train_df, feature_cols>>

seedVars == <<seed_pair, seed_probs>>

archVars == <<rank_row, archetype>>

step2Vars == <<pred, lookup, step1_pred, runs>>

statsVars == <<team_stats>>

step1Vars == <<kenpom, td, arch_matrix, test_df, fits, predictions>>

fetchVars == <<player_df, injury_df, team_summary, fetch_failed>>

auxVars == <<seedVars, archVars, step2Vars, statsVars, step1Vars, fetchVars>>

vars == <<pipeVars, auxVars>>

(***************************************************************************)
(* Bounds of the model                                                     *)
(***************************************************************************)
MaxGames == 2          \* rows in a regular-season game table
MaxTourney == 1        \* rows in a tournament game table

EloTeams == {1101, 1102}
EloSeasons == {2023, 2024, 2025, 2026}
EloDays == {10, 20}
Locs == {"H", "A", "N"}

(***************************************************************************)
(* Helpers                                                                 *)
(***************************************************************************)
Min(S) == CHOOSE x \in S : \A y \in S : x <= y

Max(S) == CHOOSE x \in S : \A y \in S : x >= y

\* Truncating division, as int() of a float quotient (TLA+'s \div floors).
Quot(a, b) == IF a >= 0 THEN a \div b ELSE -((-a) \div b)

\* Natural logarithm of n in thousandths (np.log), n = 1..24.
LnTable ==
    <<0, 693, 1099, 1386, 1609, 1792, 1946, 2079, 2197, 2303, 2398, 2485,
      2565, 2639, 2708, 2773, 2833, 2890, 2944, 2996, 3045, 3091, 3135, 3178>>

LnMilli(n) == IF n <= Len(LnTable) THEN LnTable[n] ELSE LnTable[Len(LnTable)]

\* Rating points to the model's unit, a hundredth of a rating point.
Pt(x) == x * 100

\* 10 ** (r / 400) in thousandths at r = 0, 50, ..., 400 rating points.
Pow10Table == <<1000, 1334, 1778, 2371, 3162, 4217, 5623, 7499, 10000>>

\* 10 ** (d / 400) in thousandths, d in hundredths of a point, clamped to
\* [-1200, 1200] points and interpolated between the table's entries.
Pow10Milli(d) ==
    LET c == IF d > Pt(1200) THEN Pt(1200) ELSE IF d < -Pt(1200) THEN -Pt(1200) ELSE d
        q == c \div Pt(400)
        r == c % Pt(400)
        i == (r \div Pt(50)) + 1
        f == Pow10Table[i] + ((Pow10Table[i + 1] - Pow10Table[i]) * (r % Pt(50))) \div Pt(50)
    IN  CASE q = -3 -> f \div 1000
          [] q = -2 -> f \div 100
          [] q = -1 -> f \div 10
          [] q = 0  -> f
          [] q = 1  -> f * 10
          [] q = 2  -> f * 100
          [] OTHER  -> f * 1000

\* 1 / (1 + 10 ** (d / width)) in thousandths, d in hundredths of a point.
Logistic(d, width) == 1000000 \div (1000 + Pow10Milli((d * 400) \div width))

Abs(x) == IF x >= 0 THEN x ELSE -x

\* dict.get(k, default)
Get(d, k, default) == IF k \in DOMAIN d THEN d[k] ELSE default

\* Python's None, for a name that holds a string or a number
None == "None"

\* Python's None for a name that holds a dictionary or a row (falsy, as is {})
Absent == << >>

\* the variables of the parts of the program a specification leaves alone
IdlePipe ==
    /\ variant = "unified"
    /\ regular = {}
    /\ elo = << >>
    /\ season_elos = {}
    /\ pc = "idle"
    /\ season = 0
    /\ pending = {}
    /\ applied = << >>
    /\ trn = {}
    /\ seeds = << >>
    /\ season_features = << >>
    /\ kenpom_by_team = << >>
    /\ train_df = << >>
    /\ feature_cols = << >>

IdleSeed == seed_pair = Absent /\ seed_probs = Absent

IdleArch == rank_row = Absent /\ archetype = None

IdleStats == team_stats = {}

IdleStep2 == pred = Absent /\ lookup = Absent /\ step1_pred = Absent /\ runs = 0

IdleStep1 ==
    /\ kenpom = Absent /\ td = Absent /\ test_df = << >> /\ fits = << >> /\ predictions = << >>
    /\ arch_matrix = << >>

IdleFetch ==
    player_df = {} /\ injury_df = << >> /\ team_summary = {} /\ fetch_failed = {}

(***************************************************************************)
(* Game tables                                                             *)
(***************************************************************************)
GameRows ==
    {g \in [Season : EloSeasons, DayNum : EloDays, WTeamID : EloTeams,
            LTeamID : EloTeams, WScore : {75}, LScore : {68}, WLoc : Locs] :
        g.WTeamID # g.LTeamID}

RECURSIVE TablesUpTo(_, _)
TablesUpTo(rows, n) ==
    IF n = 0 THEN {{}}
    ELSE LET prev == TablesUpTo(rows, n - 1)
         IN  prev \cup {t \cup {g} : t \in prev, g \in rows}

SeasonsOf(table) == {g.Season : g \in table}

TourneyRows ==
    {g \in [Season : {2024, 2025}, DayNum : {136}, WTeamID : EloTeams,
            LTeamID : EloTeams, WScore : {70}, LScore : {60, 69}] :
        g.WTeamID # g.LTeamID}

(***************************************************************************)
(* Unified pipeline: compute_elo                                           *)
(***************************************************************************)
ELO_BASE == 1000
ELO_WIDTH == 400
ELO_K == 100
BACKTEST_SEASON == 2025

\* defaultdict(lambda: Config.ELO_BASE): reading an unseen team gives the base.
UEloGet(e, t) == IF t \in DOMAIN e THEN e[t] ELSE Pt(ELO_BASE)

\* (mutation of UEloDecay: the rating is carried over as it is)
UEloDecay_NoRegression(r) == r

\* Config.ELO_BASE + Config.ELO_DECAY * (r - Config.ELO_BASE), ELO_DECAY = 0.33
UEloDecay(r) == Pt(ELO_BASE) + Quot(33 * (r - Pt(ELO_BASE)), 100)

\* (mutation of UEloBreak: the target season itself is still processed)
UEloBreak_Late(s, backtest_season) == s > backtest_season

\* if season >= backtest_season: break
UEloBreak(s, backtest_season) == s >= backtest_season

\* update = ELO_K * ln(|margin| + 1) * (1 - ew),
\* ew = 1 / (1 + 10 ** ((elo[l] - elo[w]) / ELO_WIDTH)); the row's WLoc is not read.
UEloUpdate(e, g) ==
    LET rw == UEloGet(e, g.WTeamID)
        rl == UEloGet(e, g.LTeamID)
        ew == Logistic(rl - rw, ELO_WIDTH)
        mov_mult == LnMilli(Abs(g.WScore - g.LScore) + 1)
    IN  (ELO_K * mov_mult * (1000 - ew)) \div 10000

\* elo[w] += update ; elo[l] -= update
UEloApply(e, g) ==
    LET u == UEloUpdate(e, g)
        w == g.WTeamID
        l == g.LTeamID
        e1 == [t \in DOMAIN e \cup {w, l} |-> UEloGet(e, t)]
        e2 == [e1 EXCEPT ![w] = @ + u]
    IN  [e2 EXCEPT ![l] = @ - u]

UEloNextSeasons == {s \in SeasonsOf(regular) : s > season}

UEloSeasonStart ==
    /\ variant = "unified"
    /\ pc = "boundary"
    /\ UEloNextSeasons # {}
    /\ ~UEloBreak(Min(UEloNextSeasons), BACKTEST_SEASON)
    /\ season' = Min(UEloNextSeasons)
    /\ elo' = [t \in DOMAIN elo |-> UEloDecay(elo[t])]
    /\ pending' = {g \in regular : g.Season = season'}
    /\ pc' = "games"
    /\ UNCHANGED <<variant, regular, season_elos, applied, inputVars, train_df, feature_cols, auxVars>>

\* (mutation of UEloGame: the rows of the season are taken in any order)
UEloGame_Unsorted ==
    /\ variant = "unified"
    /\ pc = "games"
    /\ \E g \in pending :
        /\ elo' = UEloApply(elo, g)
        /\ applied' = Append(applied, [game |-> g, before |-> elo, after |-> elo'])
        /\ pending' = pending \ {g}
    /\ UNCHANGED <<variant, regular, season_elos, pc, season, inputVars, train_df, feature_cols, auxVars>>

\* games.sort_values('DayNum'): the next row is one of the smallest day left
UEloGame ==
    /\ variant = "unified"
    /\ pc = "games"
    /\ \E g \in pending :
        /\ \A h \in pending : g.DayNum <= h.DayNum
        /\ elo' = UEloApply(elo, g)
        /\ applied' = Append(applied, [game |-> g, before |-> elo, after |-> elo'])
        /\ pending' = pending \ {g}
    /\ UNCHANGED <<variant, regular, season_elos, pc, season, inputVars, train_df, feature_cols, auxVars>>

UEloSnapshot ==
    /\ variant = "unified"
    /\ pc = "games"
    /\ pending = {}
    /\ season_elos' = season_elos \cup
            {[Season |-> season, TeamID |-> t, elo |-> elo[t]] : t \in DOMAIN elo}
    /\ pc' = "boundary"
    /\ UNCHANGED <<variant, regular, elo, season, pending, applied, inputVars, train_df, feature_cols, auxVars>>

UEloFinal ==
    /\ variant = "unified"
    /\ pc = "boundary"
    /\ IF UEloNextSeasons = {} THEN TRUE
       ELSE UEloBreak(Min(UEloNextSeasons), BACKTEST_SEASON)
    /\ season_elos' = season_elos \cup
            {[Season |-> BACKTEST_SEASON, TeamID |-> t, elo |-> UEloDecay(elo[t])] :
                t \in DOMAIN elo}
    /\ pc' = "done"
    /\ UNCHANGED <<variant, regular, elo, season, pending, applied, inputVars, train_df, feature_cols, auxVars>>

(***************************************************************************)
(* v2 pipeline: compute_elo(reg, 2025)                                     *)
(***************************************************************************)
V2_K == 32
V2_HOME_ADV == 3
V2_FIRST_SEASON == 2003
V2_PRED_SEASON == 2025
V2_ELO_START == 1500

\* elo[tid] * 0.75 + 1500 * 0.25
V2EloDecay(r) == Quot(75 * r + 25 * Pt(V2_ELO_START), 100)

\* adv = HOME_ADV if loc == 'H' else (-HOME_ADV if loc == 'A' else 0)
V2EloAdv(loc) ==
    IF loc = "H" THEN Pt(V2_HOME_ADV) ELSE IF loc = "A" THEN -Pt(V2_HOME_ADV) ELSE 0

\* if w not in elo: elo[w] = 1500 ; if l not in elo: elo[l] = 1500
V2EloSeen(e, g) ==
    [t \in DOMAIN e \cup {g.WTeamID, g.LTeamID} |->
        IF t \in DOMAIN e THEN e[t] ELSE Pt(V2_ELO_START)]

\* expected_w = 1 / (1 + 10 ** ((elo[l] - elo[w] - adv) / 400))
\* mov_mult = np.log(abs(margin) + 1) * (2.2 / (0.001 * (elo[w] - elo[l]) + 2.2))
\* update = K * mov_mult * (1 - expected_w)
V2EloUpdate(e, g) ==
    LET rw == e[g.WTeamID]
        rl == e[g.LTeamID]
        expected_w == Logistic(rl - rw - V2EloAdv(g.WLoc), 400)
        mov_mult == (LnMilli(Abs(g.WScore - g.LScore) + 1) * Pt(2200))
                        \div ((rw - rl) + Pt(2200))
    IN  (V2_K * mov_mult * (1000 - expected_w)) \div 10000

\* (mutation of V2EloApply: the loser gives up only half of the winner's gain)
V2EloApply_Lopsided(e, g) ==
    LET e1 == V2EloSeen(e, g)
        u == V2EloUpdate(e1, g)
        e2 == [e1 EXCEPT ![g.WTeamID] = @ + u]
    IN  [e2 EXCEPT ![g.LTeamID] = @ - (u \div 2)]

\* elo[w] += update ; elo[l] -= update
V2EloApply(e, g) ==
    LET e1 == V2EloSeen(e, g)
        u == V2EloUpdate(e1, g)
        e2 == [e1 EXCEPT ![g.WTeamID] = @ + u]
    IN  [e2 EXCEPT ![g.LTeamID] = @ - u]

\* for season in range(2003, through_season + 1): regress, then load the season
V2EloSeasonStart ==
    /\ variant = "v2"
    /\ pc = "boundary"
    /\ season <= V2_PRED_SEASON
    /\ elo' = [t \in DOMAIN elo |-> V2EloDecay(elo[t])]
    /\ LET rs == {g \in regular : g.Season = season}
       IN  /\ pending' = rs
           /\ IF rs = {} THEN /\ season' = season + 1
                              /\ pc' = "boundary"
                         ELSE /\ season' = season
                              /\ pc' = "games"
    /\ UNCHANGED <<variant, regular, season_elos, applied, inputVars, train_df, feature_cols, auxVars>>

\* rs.sort_values('DayNum'): the next row is one of the smallest day left
V2EloGame ==
    /\ variant = "v2"
    /\ pc = "games"
    /\ \E g \in pending :
        /\ \A h \in pending : g.DayNum <= h.DayNum
        /\ elo' = V2EloApply(elo, g)
        /\ applied' = Append(applied, [game |-> g, before |-> elo, after |-> elo'])
        /\ pending' = pending \ {g}
        /\ IF pending' = {} THEN /\ season' = season + 1
                                 /\ pc' = "boundary"
                            ELSE /\ season' = season
                                 /\ pc' = "games"
    /\ UNCHANGED <<variant, regular, season_elos, inputVars, train_df, feature_cols, auxVars>>

\* return elo
V2EloReturn ==
    /\ variant = "v2"
    /\ pc = "boundary"
    /\ season > V2_PRED_SEASON
    /\ pc' = "done"
    /\ UNCHANGED <<variant, regular, elo, season_elos, season, pending, applied, inputVars, train_df, feature_cols, auxVars>>

(***************************************************************************)
(* v2 pipeline: build_matchup_features                                     *)
(* A feature dictionary is the sequence of its <<name, value>> items in    *)
(* insertion order.  Statistics and probabilities are thousandths.         *)
(***************************************************************************)
V2_SEED_PROBS ==
    (<<1, 16>> :> 993) @@ (<<2, 15>> :> 938) @@ (<<3, 14>> :> 881) @@ (<<4, 13>> :> 810) @@
    (<<5, 12>> :> 654) @@ (<<6, 11>> :> 548) @@ (<<7, 10>> :> 597) @@ (<<8, 9>> :> 500) @@
    (<<1, 8>> :> 850) @@ (<<1, 9>> :> 850) @@ (<<2, 7>> :> 640) @@ (<<2, 10>> :> 640) @@
    (<<3, 6>> :> 580) @@ (<<3, 11>> :> 580) @@ (<<4, 5>> :> 550) @@ (<<4, 12>> :> 550) @@
    (<<1, 4>> :> 720) @@ (<<1, 5>> :> 720) @@ (<<2, 3>> :> 550) @@ (<<2, 6>> :> 550) @@
    (<<1, 2>> :> 580) @@ (<<1, 3>> :> 650)

\* key = (min(s1,s2), max(s1,s2)); base_prob = seed_probs.get(key, 0.5)
\* s1 < s2: base_prob ; s1 > s2: 1 - base_prob ; else 0.5
V2SeedImplied(s1, s2) ==
    LET key == <<IF s1 <= s2 THEN s1 ELSE s2, IF s1 <= s2 THEN s2 ELSE s1>>
        base_prob == Get(V2_SEED_PROBS, key, 500)
    IN  IF s1 < s2 THEN base_prob
        ELSE IF s1 > s2 THEN 1000 - base_prob
        ELSE 500

\* the features every matchup gets
V2BaseFeatures(t1_feat, t2_feat, t1_seed, t2_seed, t1_elo, t2_elo) ==
    <<
        <<"seed_diff", t1_seed - t2_seed>>,
        <<"elo_diff", t1_elo - t2_elo>>,
        <<"seed_implied_prob", V2SeedImplied(t1_seed, t2_seed)>>,
        <<"t1_win_ratio", Get(t1_feat, "win_ratio", 500)>>,
        <<"t1_avg_margin", Get(t1_feat, "avg_margin", 0)>>,
        <<"t1_off_eff", Get(t1_feat, "off_eff", 100000)>>,
        <<"t1_def_eff", Get(t1_feat, "def_eff", 100000)>>,
        <<"t1_net_eff", Get(t1_feat, "net_eff", 0)>>,
        <<"t1_efg", Get(t1_feat, "efg", 450)>>,
        <<"t1_opp_efg", Get(t1_feat, "opp_efg", 450)>>,
        <<"t1_to_rate", Get(t1_feat, "to_rate", 150)>>,
        <<"t1_or_pct", Get(t1_feat, "or_pct", 300)>>,
        <<"t1_dr_pct", Get(t1_feat, "dr_pct", 700)>>,
        <<"t1_ft_rate", Get(t1_feat, "ft_rate", 300)>>,
        <<"t1_three_rate", Get(t1_feat, "three_rate", 350)>>,
        <<"t1_blk_stl", Get(t1_feat, "blk_stl", 5000)>>,
        <<"t1_pyth", Get(t1_feat, "pyth", 500)>>,
        <<"t1_recent_wr", Get(t1_feat, "recent_wr", 500)>>,
        <<"t2_win_ratio", Get(t2_feat, "win_ratio", 500)>>,
        <<"t2_avg_margin", Get(t2_feat, "avg_margin", 0)>>,
        <<"t2_off_eff", Get(t2_feat, "off_eff", 100000)>>,
        <<"t2_def_eff", Get(t2_feat, "def_eff", 100000)>>,
        <<"t2_net_eff", Get(t2_feat, "net_eff", 0)>>,
        <<"t2_efg", Get(t2_feat, "efg", 450)>>,
        <<"t2_opp_efg", Get(t2_feat, "opp_efg", 450)>>,
        <<"t2_to_rate", Get(t2_feat, "to_rate", 150)>>,
        <<"t2_or_pct", Get(t2_feat, "or_pct", 300)>>,
        <<"t2_dr_pct", Get(t2_feat, "dr_pct", 700)>>,
        <<"t2_ft_rate", Get(t2_feat, "ft_rate", 300)>>,
        <<"t2_three_rate", Get(t2_feat, "three_rate", 350)>>,
        <<"t2_blk_stl", Get(t2_feat, "blk_stl", 5000)>>,
        <<"t2_pyth", Get(t2_feat, "pyth", 500)>>,
        <<"t2_recent_wr", Get(t2_feat, "recent_wr", 500)>>,
        <<"margin_diff", Get(t1_feat, "avg_margin", 0) - Get(t2_feat, "avg_margin", 0)>>,
        <<"off_eff_diff", Get(t1_feat, "off_eff", 100000) - Get(t2_feat, "off_eff", 100000)>>,
        <<"def_eff_diff", Get(t1_feat, "def_eff", 100000) - Get(t2_feat, "def_eff", 100000)>>,
        <<"net_eff_diff", Get(t1_feat, "net_eff", 0) - Get(t2_feat, "net_eff", 0)>>,
        <<"efg_diff", Get(t1_feat, "efg", 450) - Get(t2_feat, "efg", 450)>>,
        <<"pyth_diff", Get(t1_feat, "pyth", 500) - Get(t2_feat, "pyth", 500)>>
    >>

\* features.update({...}) when both composite records are present
V2KpFeatures(t1_kp, t2_kp) ==
    <<
        <<"kp_adjoe_diff", Get(t1_kp, "AdjOE", 0) - Get(t2_kp, "AdjOE", 0)>>,
        <<"kp_adjde_diff", Get(t1_kp, "AdjDE", 0) - Get(t2_kp, "AdjDE", 0)>>,
        <<"kp_adjem_diff", Get(t1_kp, "AdjEM", 0) - Get(t2_kp, "AdjEM", 0)>>,
        <<"kp_tempo_diff", Get(t1_kp, "AdjTempo", 0) - Get(t2_kp, "AdjTempo", 0)>>,
        <<"kp_t1_off_vs_t2_def", Get(t1_kp, "AdjOE", 100000) - Get(t2_kp, "AdjDE", 100000)>>,
        <<"kp_t2_off_vs_t1_def", Get(t2_kp, "AdjOE", 100000) - Get(t1_kp, "AdjDE", 100000)>>,
        <<"kp_t1_adjem", Get(t1_kp, "AdjEM", 0)>>,
        <<"kp_t2_adjem", Get(t2_kp, "AdjEM", 0)>>,
        <<"kp_rank_diff", Get(t1_kp, "RankAdjEM", 180) - Get(t2_kp, "RankAdjEM", 180)>>
    >>

\* (mutation of V2KpAbsent: the rank difference is left out)
V2KpAbsent_Short ==
    <<
        <<"kp_adjoe_diff", 0>>, <<"kp_adjde_diff", 0>>, <<"kp_adjem_diff", 0>>,
        <<"kp_tempo_diff", 0>>, <<"kp_t1_off_vs_t2_def", 0>>, <<"kp_t2_off_vs_t1_def", 0>>,
        <<"kp_t1_adjem", 0>>, <<"kp_t2_adjem", 0>>
    >>

\* features.update({...}) otherwise
V2KpAbsent ==
    <<
        <<"kp_adjoe_diff", 0>>, <<"kp_adjde_diff", 0>>, <<"kp_adjem_diff", 0>>,
        <<"kp_tempo_diff", 0>>, <<"kp_t1_off_vs_t2_def", 0>>, <<"kp_t2_off_vs_t1_def", 0>>,
        <<"kp_t1_adjem", 0>>, <<"kp_t2_adjem", 0>>, <<"kp_rank_diff", 0>>
    >>

V2BuildMatchupFeatures(t1_feat, t2_feat, t1_seed, t2_seed, t1_elo, t2_elo, t1_kp, t2_kp) ==
    V2BaseFeatures(t1_feat, t2_feat, t1_seed, t2_seed, t1_elo, t2_elo) \o
    (IF t1_kp # Absent /\ t2_kp # Absent THEN V2KpFeatures(t1_kp, t2_kp) ELSE V2KpAbsent)

\* the names of a feature dictionary, in order (the columns it gives a DataFrame)
Columns(features) == [i \in 1..Len(features) |-> features[i][1]]

\* features[name]
Item(features, name) ==
    LET i == CHOOSE j \in 1..Len(features) : features[j][1] = name
    IN  features[i][2]

(***************************************************************************)
(* v2 pipeline: build_training_data                                        *)
(***************************************************************************)
\* dict(zip(season_seeds['TeamID'], seed number)) of one season
SeedMap(seed_table, s) ==
    [t \in {k[2] : k \in {k \in DOMAIN seed_table : k[1] = s}} |-> seed_table[<<s, t>>]]

\* a set's elements as a sequence, in some order (a table's row order)
RECURSIVE SetToSeq(_)
SetToSeq(S) ==
    IF S = {} THEN << >>
    ELSE LET x == CHOOSE y \in S : TRUE IN <<x>> \o SetToSeq(S \ {x})

\* the body of the loop over a season's tournament games
V2TrainingRow(g, seed_map, feat, elo_ratings, kp_by_team) ==
    LET w == g.WTeamID
        l == g.LTeamID
        ws == Get(seed_map, w, 8)
        ls == Get(seed_map, l, 8)
        t1 == IF w < l THEN w ELSE l
        t2 == IF w < l THEN l ELSE w
        t1_seed == IF w < l THEN ws ELSE ls
        t2_seed == IF w < l THEN ls ELSE ws
        target == IF w < l THEN 1 ELSE 0
        margin == IF w < l THEN g.WScore - g.LScore ELSE g.LScore - g.WScore
        t1_feat == Get(feat, t1, << >>)
        t2_feat == Get(feat, t2, << >>)
        t1_elo == Get(elo_ratings, t1, Pt(V2_ELO_START))
        t2_elo == Get(elo_ratings, t2, Pt(V2_ELO_START))
        t1_kp == IF g.Season = V2_PRED_SEASON THEN Get(kp_by_team, t1, Absent) ELSE Absent
        t2_kp == IF g.Season = V2_PRED_SEASON THEN Get(kp_by_team, t2, Absent) ELSE Absent
    IN  [features |-> V2BuildMatchupFeatures(t1_feat, t2_feat, t1_seed, t2_seed,
                                             t1_elo, t2_elo, t1_kp, t2_kp),
         target |-> target, margin |-> margin, season |-> g.Season,
         t1_id |-> t1, t2_id |-> t2, t1_seed_raw |-> t1_seed, t2_seed_raw |-> t2_seed]

\* for season in range(2003, 2025): for each tournament game of the season
V2BuildTrainingRows(tourney, seed_table, elo_ratings, cache, kp_by_team) ==
    SetToSeq({V2TrainingRow(g, SeedMap(seed_table, g.Season), Get(cache, g.Season, << >>),
                            elo_ratings, kp_by_team) :
                g \in {h \in tourney : h.Season \in V2_FIRST_SEASON..(V2_PRED_SEASON - 1)}})

\* pd.DataFrame(rows).columns less the bookkeeping columns: the union of the
\* rows' names, each at its first appearance
RECURSIVE DataFrameColumns(_)
DataFrameColumns(rows) ==
    IF rows = << >> THEN << >>
    ELSE LET rest == DataFrameColumns(Tail(rows))
             mine == Columns(Head(rows).features)
         IN  mine \o SelectSeq(rest, LAMBDA c : \A i \in 1..Len(mine) : mine[i] # c)

\* main: elo = compute_elo(reg, 2025) is done; trn_train = trn[trn['Season'] < 2025];
\* train_df = build_training_data(...); feature_cols = the feature columns
V2BuildTrainingData ==
    /\ variant = "v2"
    /\ pc = "done"
    /\ \E t \in TablesUpTo(TourneyRows, MaxTourney) :
        /\ trn' = t
        /\ train_df' = V2BuildTrainingRows({g \in t : g.Season < V2_PRED_SEASON}, seeds, elo,
                                           season_features, kenpom_by_team)
    /\ feature_cols' = DataFrameColumns(train_df')
    /\ pc' = IF train_df' = << >> THEN "error" ELSE "built"
    /\ UNCHANGED <<variant, regular, elo, season_elos, season, pending, applied,
                   seeds, season_features, kenpom_by_team, auxVars>>

(***************************************************************************)
(* The rating engine                                                       *)
(***************************************************************************)
InitElo ==
    /\ variant \in {"unified", "v2"}
    /\ regular \in TablesUpTo(GameRows, MaxGames)
    /\ elo = << >>
    /\ season_elos = {}
    /\ pc = "boundary"
    /\ season = IF variant = "v2" THEN V2_FIRST_SEASON ELSE 0
    /\ pending = {}
    /\ applied = << >>
    /\ trn = {}
    /\ seeds = << >>
    /\ season_features = << >>
    /\ kenpom_by_team = << >>
    /\ train_df = << >>
    /\ feature_cols = << >>
    /\ IdleSeed
    /\ IdleArch
    /\ IdleFetch
    /\ IdleStep2
    /\ IdleStep1
    /\ IdleStats

NextElo ==
    \/ UEloSeasonStart
    \/ UEloGame
    \/ UEloSnapshot
    \/ UEloFinal
    \/ V2EloSeasonStart
    \/ V2EloGame
    \/ V2EloReturn
    \/ V2BuildTrainingData

SpecElo == InitElo /\ [][NextElo]_vars

(***************************************************************************)
(* Properties of the rating engine                                         *)
(***************************************************************************)
\* the rating a dictionary gives a team, an unseen team counted at the baseline
Rating(e, t) ==
    IF t \in DOMAIN e THEN e[t]
    ELSE IF variant = "v2" THEN Pt(V2_ELO_START) ELSE Pt(ELO_BASE)

RECURSIVE SumRatings(_, _)
SumRatings(e, T) ==
    IF T = {} THEN 0
    ELSE LET t == CHOOSE x \in T : TRUE IN Rating(e, t) + SumRatings(e, T \ {t})

\* C2: in the unified compute_elo every game that updates a rating has a
\* season strictly before the target season, no season at or after the target
\* is ever the season of the loop, and no snapshot is recorded for a later one.
C2_OnlyPreTargetGamesUpdate ==
    variant = "unified" =>
        /\ \A i \in 1..Len(applied) : applied[i].game.Season < BACKTEST_SEASON
        /\ (pc = "games" => season < BACKTEST_SEASON)
        /\ \A r \in season_elos : r.Season <= BACKTEST_SEASON
        /\ \A r \in season_elos :
              r.Season = BACKTEST_SEASON => r.elo = UEloDecay(elo[r.TeamID])

C2_Witness ==
    /\ variant = "unified"
    /\ pc = "done"
    /\ applied # << >>
    /\ \E g \in regular : g.Season >= BACKTEST_SEASON

\* the ratings as they stand when the first game of the predicted season is
\* reached (the boundary regression made, none of its games applied)
V2First2025 == Min({i \in 1..Len(applied) : applied[i].game.Season = V2_PRED_SEASON})

\* C3: the rating difference of every v2 training row is the one the ratings
\* give without any game of the predicted season 2025.
C3_TrainingRowsFreeOf2025 ==
    (variant = "v2" /\ pc = "built"
        /\ \E i \in 1..Len(applied) : applied[i].game.Season = V2_PRED_SEASON) =>
        \A k \in 1..Len(train_df) :
            LET e0 == applied[V2First2025].before
            IN  Item(train_df[k].features, "elo_diff") =
                    Get(e0, train_df[k].t1_id, Pt(V2_ELO_START))
                    - Get(e0, train_df[k].t2_id, Pt(V2_ELO_START))

\* C4: for every game applied by either compute_elo the winner's gain is the
\* loser's loss, and the sum of all ratings (an unseen team at the baseline) is
\* the same after any run of games of one season as before it.
C4_ZeroSum ==
    /\ \A i \in 1..Len(applied) :
        LET a == applied[i]
            w == a.game.WTeamID
            l == a.game.LTeamID
        IN  /\ a.after[w] - Rating(a.before, w) = Rating(a.before, l) - a.after[l]
            /\ \A t \in EloTeams \ {w, l} : Rating(a.after, t) = Rating(a.before, t)
    /\ \A i, j \in 1..Len(applied) :
        (i <= j /\ applied[i].game.Season = applied[j].game.Season) =>
            SumRatings(applied[j].after, EloTeams) = SumRatings(applied[i].before, EloTeams)

C4_Witness ==
    /\ Len(applied) >= 2
    /\ applied[1].game.Season = applied[2].game.Season
    /\ applied[1].after[applied[1].game.WTeamID]
            > Rating(applied[1].before, applied[1].game.WTeamID)
    /\ applied[2].after[applied[2].game.WTeamID]
            > Rating(applied[2].before, applied[2].game.WTeamID)

\* baseline + decay * (r - baseline) as each pipeline writes it: 1000 and 0.33
\* in the unified pipeline, r * 0.75 + 1500 * 0.25 in v2
Regressed(r) ==
    IF variant = "v2" THEN Quot(75 * r + 25 * 150000, 100)
    ELSE 100000 + Quot(33 * (r - 100000), 100)

RECURSIVE RegressedTimes(_, _)
RegressedTimes(r, k) == IF k = 0 THEN r ELSE RegressedTimes(Regressed(r), k - 1)

\* the season boundaries crossed between two games applied one after the other:
\* v2 regresses at every season of its range, the unified pipeline at every
\* season that has games
BoundariesBetween(a, b) ==
    IF variant = "v2" THEN b.game.Season - a.game.Season
    ELSE IF b.game.Season = a.game.Season THEN 0 ELSE 1

\* the ratings after the last game applied
LastRatings == IF applied = << >> THEN << >> ELSE applied[Len(applied)].after

\* C18: between the last game of a season and the first game of the next the
\* rating r of every known team becomes baseline + decay * (r - baseline), once
\* for every boundary crossed, and nothing else changes it; a team a game meets
\* for the first time enters at the baseline; the unified snapshot of the target
\* season holds, for every known team and no other, the regressed value of its
\* rating after the last pre-target game.
C18_SeasonBoundaryRegression ==
    /\ Len(applied) >= 1 => applied[1].before = << >>
    /\ \A i \in 2..Len(applied) :
          LET a == applied[i - 1]
              b == applied[i]
          IN  /\ DOMAIN b.before = DOMAIN a.after
              /\ \A t \in DOMAIN a.after :
                    b.before[t] = RegressedTimes(a.after[t], BoundariesBetween(a, b))
    /\ \A i \in 1..Len(applied) :
          LET a == applied[i]
              base == IF variant = "v2" THEN 150000 ELSE 100000
              Before(t) == IF t \in DOMAIN a.before THEN a.before[t] ELSE base
          IN  a.after[a.game.WTeamID] + a.after[a.game.LTeamID]
                  = Before(a.game.WTeamID) + Before(a.game.LTeamID)
    /\ (variant = "unified" /\ pc = "done") =>
          /\ \A t \in DOMAIN LastRatings :
                [Season |-> BACKTEST_SEASON, TeamID |-> t, elo |-> Regressed(LastRatings[t])]
                    \in season_elos
          /\ \A r \in season_elos :
                r.Season = BACKTEST_SEASON =>
                    /\ r.TeamID \in DOMAIN LastRatings
                    /\ r.elo = Regressed(LastRatings[r.TeamID])

\* two seasons of games before the target season: the second season's first
\* game found both teams regressed, and the target snapshot is off the baseline
C18_Witness ==
    /\ variant = "unified"
    /\ pc = "done"
    /\ Len(applied) = 2
    /\ applied[1].game.Season < applied[2].game.Season
    /\ applied[2].before[applied[1].game.WTeamID] < applied[1].after[applied[1].game.WTeamID]
    /\ applied[2].before[applied[1].game.WTeamID] > 100000
    /\ \E r \in season_elos : r.Season = BACKTEST_SEASON /\ r.elo # 100000

\* the games applied are in non-decreasing (season, day) order
AppliedInOrder ==
    \A i, j \in 1..Len(applied) :
        i < j =>
            \/ applied[i].game.Season < applied[j].game.Season
            \/ /\ applied[i].game.Season = applied[j].game.Season
               /\ applied[i].game.DayNum <= applied[j].game.DayNum

\* the number of times a game has been applied
TimesApplied(g) == Cardinality({i \in 1..Len(applied) : applied[i].game = g})

\* the seasons compute_elo processes
ProcessedSeason(s) ==
    IF variant = "v2" THEN s >= V2_FIRST_SEASON /\ s <= V2_PRED_SEASON
    ELSE s < BACKTEST_SEASON

\* C19 (as stated): games are applied in non-decreasing (season, day) order
\* and, compute_elo having returned, each game of the table has been applied
\* exactly once.
C19_OrderedAndEveryGameOnce ==
    /\ AppliedInOrder
    /\ \A g \in regular : TimesApplied(g) <= 1
    /\ pc = "done" => \A g \in regular : TimesApplied(g) = 1

\* C19 (amended): games are applied in non-decreasing (season, day) order, no
\* game is applied twice and, compute_elo having returned, each game of a
\* processed season has been applied exactly once and no other game at all.
C19_OrderedAndProcessedGamesOnce ==
    /\ AppliedInOrder
    /\ \A i \in 1..Len(applied) : applied[i].game \in regular
    /\ \A g \in regular : TimesApplied(g) <= 1
    /\ pc = "done" =>
          \A g \in regular : TimesApplied(g) = (IF ProcessedSeason(g.Season) THEN 1 ELSE 0)

\* a table with a late game and an early game of one season, both applied
C19_Witness ==
    /\ pc = "done"
    /\ Len(applied) = 2
    /\ applied[1].game.Season = applied[2].game.Season
    /\ applied[1].game.DayNum < applied[2].game.DayNum

\* the update of a game from given ratings had its location flag been loc
UpdateAt(e, g, loc) ==
    IF variant = "v2" THEN V2EloUpdate(V2EloSeen(e, g), [g EXCEPT !.WLoc = loc])
    ELSE UEloUpdate(e, [g EXCEPT !.WLoc = loc])

\* C20: for every game applied, the location flag moves the winner's
\* expectation and with it the update: the winner gains least for a home win,
\* more on a neutral court and most for an away win, and the update made is the
\* one of the game's own flag.
C20_LocationChangesUpdate ==
    \A i \in 1..Len(applied) :
        LET a == applied[i]
            w == a.game.WTeamID
            before_w == IF w \in DOMAIN a.before THEN a.before[w]
                        ELSE IF variant = "v2" THEN 150000 ELSE 100000
        IN  /\ UpdateAt(a.before, a.game, "H") < UpdateAt(a.before, a.game, "N")
            /\ UpdateAt(a.before, a.game, "N") < UpdateAt(a.before, a.game, "A")
            /\ a.after[w] - before_w = UpdateAt(a.before, a.game, a.game.WLoc)

(***************************************************************************)
(* Seed-implied probability, both pipelines                                *)
(***************************************************************************)
SeedNumbers == 1..16

\* Config.SEED_WIN_RATES, in thousandths
SEED_WIN_RATES ==
    (<<1, 16>> :> 993) @@ (<<2, 15>> :> 943) @@ (<<3, 14>> :> 851) @@ (<<4, 13>> :> 793) @@
    (<<5, 12>> :> 649) @@ (<<6, 11>> :> 627) @@ (<<7, 10>> :> 609) @@ (<<8, 9>> :> 519) @@
    (<<1, 8>> :> 794) @@ (<<1, 9>> :> 862) @@ (<<2, 7>> :> 667) @@ (<<2, 10>> :> 714) @@
    (<<3, 6>> :> 571) @@ (<<3, 11>> :> 657) @@ (<<4, 5>> :> 545) @@ (<<4, 12>> :> 667) @@
    (<<1, 4>> :> 714) @@ (<<1, 5>> :> 800) @@ (<<2, 3>> :> 545) @@ (<<2, 6>> :> 667) @@
    (<<1, 2>> :> 556) @@ (<<1, 3>> :> 650)

\* (mutation of get_seed_prob: the table's value whatever the order of the seeds)
get_seed_prob_Unordered(s1, s2) ==
    LET key == <<IF s1 <= s2 THEN s1 ELSE s2, IF s1 <= s2 THEN s2 ELSE s1>>
    IN  Get(SEED_WIN_RATES, key, 500)

\* key = (min(s1, s2), max(s1, s2)); base_prob = Config.SEED_WIN_RATES.get(key, 0.5)
\* return base_prob if s1 <= s2 else 1 - base_prob
get_seed_prob(s1, s2) ==
    LET key == <<IF s1 <= s2 THEN s1 ELSE s2, IF s1 <= s2 THEN s2 ELSE s1>>
        base_prob == Get(SEED_WIN_RATES, key, 500)
    IN  IF s1 <= s2 THEN base_prob ELSE 1000 - base_prob

\* the unified pipeline's value for the pair and for the pair swapped
USeedProb ==
    /\ seed_probs = Absent
    /\ seed_probs' = [variant |-> "unified",
                      fwd |-> get_seed_prob(seed_pair[1], seed_pair[2]),
                      rev |-> get_seed_prob(seed_pair[2], seed_pair[1])]
    /\ UNCHANGED <<fetchVars, pipeVars, seed_pair, archVars, step2Vars, statsVars, step1Vars>>

\* the v2 pipeline's value for the pair and for the pair swapped
V2SeedProb ==
    /\ seed_probs = Absent
    /\ seed_probs' = [variant |-> "v2",
                      fwd |-> V2SeedImplied(seed_pair[1], seed_pair[2]),
                      rev |-> V2SeedImplied(seed_pair[2], seed_pair[1])]
    /\ UNCHANGED <<fetchVars, pipeVars, seed_pair, archVars, step2Vars, statsVars, step1Vars>>

InitSeed ==
    /\ IdlePipe
    /\ IdleStats
    /\ IdleArch
    /\ IdleFetch
    /\ IdleStep2
    /\ IdleStep1
    /\ seed_pair \in SeedNumbers \X SeedNumbers
    /\ seed_probs = Absent

NextSeed == USeedProb \/ V2SeedProb

SpecSeed == InitSeed /\ [][NextSeed]_vars

\* C6: for every pair of seeds 1..16, in the seed table or not, each pipeline's
\* probability for (a, b) and its probability for (b, a) sum to exactly one, and
\* for equal seeds the probability is exactly one half.
C6_SeedProbComplementary ==
    seed_probs # Absent =>
        /\ seed_probs.fwd + seed_probs.rev = 1000
        /\ (seed_pair[1] = seed_pair[2] => seed_probs.fwd = 500)

C6_Witness ==
    /\ seed_probs # Absent
    /\ seed_probs.variant = "unified"
    /\ seed_pair = <<12, 5>>
    /\ seed_probs.fwd = 351

(***************************************************************************)
(* Unified pipeline: ArchetypeEngine                                       *)
(***************************************************************************)
\* np.nan: a value apart from every number of the model
NaN == -999999999

ARCHETYPE_MAP ==
    (<<"Elite", "Elite", "Fast">> :> "The Juggernaut") @@
    (<<"Elite", "Elite", "Slow">> :> "The Fortress") @@
    (<<"Elite", "Elite", "Medium">> :> "The Powerhouse") @@
    (<<"Elite", "Good", "Fast">> :> "The Sharpshooter") @@
    (<<"Elite", "Good", "Slow">> :> "The Sniper") @@
    (<<"Elite", "Good", "Medium">> :> "The Sniper") @@
    (<<"Elite", "Average", "Fast">> :> "The Gunslinger") @@
    (<<"Elite", "Average", "Slow">> :> "The Gunslinger") @@
    (<<"Elite", "Average", "Medium">> :> "The Gunslinger") @@
    (<<"Elite", "Below Average", "Fast">> :> "The Glass Cannon") @@
    (<<"Elite", "Below Average", "Slow">> :> "The Glass Cannon") @@
    (<<"Elite", "Below Average", "Medium">> :> "The Glass Cannon") @@
    (<<"Elite", "Weak", "Fast">> :> "The Glass Cannon") @@
    (<<"Elite", "Weak", "Slow">> :> "The Glass Cannon") @@
    (<<"Elite", "Weak", "Medium">> :> "The Glass Cannon") @@
    (<<"Good", "Elite", "Fast">> :> "The Crusher") @@
    (<<"Good", "Elite", "Slow">> :> "The Wall") @@
    (<<"Good", "Elite", "Medium">> :> "The Wall") @@
    (<<"Average", "Elite", "Fast">> :> "The Lockdown") @@
    (<<"Average", "Elite", "Slow">> :> "The Lockdown") @@
    (<<"Average", "Elite", "Medium">> :> "The Lockdown") @@
    (<<"Below Average", "Elite", "Fast">> :> "The Grinder") @@
    (<<"Below Average", "Elite", "Slow">> :> "The Grinder") @@
    (<<"Below Average", "Elite", "Medium">> :> "The Grinder") @@
    (<<"Weak", "Elite", "Fast">> :> "The Brick House") @@
    (<<"Weak", "Elite", "Slow">> :> "The Brick House") @@
    (<<"Weak", "Elite", "Medium">> :> "The Brick House") @@
    (<<"Good", "Good", "Fast">> :> "The Balanced Threat") @@
    (<<"Good", "Good", "Slow">> :> "The Fundamentals") @@
    (<<"Good", "Good", "Medium">> :> "The All-Arounder") @@
    (<<"Good", "Average", "Fast">> :> "The Run-and-Gun") @@
    (<<"Good", "Average", "Slow">> :> "The Half-Court Hero") @@
    (<<"Good", "Average", "Medium">> :> "The Scorer") @@
    (<<"Good", "Below Average", "Fast">> :> "The Run-and-Gun") @@
    (<<"Good", "Below Average", "Slow">> :> "The Half-Court Hero") @@
    (<<"Good", "Below Average", "Medium">> :> "The Scorer") @@
    (<<"Good", "Weak", "Fast">> :> "The Run-and-Gun") @@
    (<<"Good", "Weak", "Slow">> :> "The Half-Court Hero") @@
    (<<"Good", "Weak", "Medium">> :> "The Scorer") @@
    (<<"Average", "Good", "Fast">> :> "The Pressure Cooker") @@
    (<<"Average", "Good", "Slow">> :> "The Suffocator") @@
    (<<"Average", "Good", "Medium">> :> "The Defender") @@
    (<<"Below Average", "Good", "Fast">> :> "The Pressure Cooker") @@
    (<<"Below Average", "Good", "Slow">> :> "The Suffocator") @@
    (<<"Below Average", "Good", "Medium">> :> "The Defender") @@
    (<<"Weak", "Good", "Fast">> :> "The Defense-First") @@
    (<<"Weak", "Good", "Slow">> :> "The Defense-First") @@
    (<<"Weak", "Good", "Medium">> :> "The Defense-First") @@
    (<<"Average", "Average", "Fast">> :> "The Scrappy Squad") @@
    (<<"Average", "Average", "Slow">> :> "The Plodder") @@
    (<<"Average", "Average", "Medium">> :> "The Mid-Pack") @@
    (<<"Average", "Below Average", "Fast">> :> "The Offensive Minded") @@
    (<<"Average", "Below Average", "Slow">> :> "The Offensive Minded") @@
    (<<"Average", "Below Average", "Medium">> :> "The Offensive Minded") @@
    (<<"Below Average", "Average", "Fast">> :> "The Defensive Minded") @@
    (<<"Below Average", "Average", "Slow">> :> "The Defensive Minded") @@
    (<<"Below Average", "Average", "Medium">> :> "The Defensive Minded") @@
    (<<"Below Average", "Below Average", "Fast">> :> "The Underdog") @@
    (<<"Below Average", "Below Average", "Slow">> :> "The Underdog") @@
    (<<"Below Average", "Below Average", "Medium">> :> "The Underdog")

\* the names ARCHETYPE_DESCRIPTIONS describes
ARCHETYPE_DESCRIPTIONS ==
    {
     "The Juggernaut", "The Fortress", "The Powerhouse",
     "The Sharpshooter", "The Sniper", "The Gunslinger",
     "The Glass Cannon", "The Crusher", "The Wall",
     "The Lockdown", "The Grinder", "The Brick House",
     "The Balanced Threat", "The Fundamentals", "The All-Arounder",
     "The Run-and-Gun", "The Half-Court Hero", "The Scorer",
     "The Pressure Cooker", "The Suffocator", "The Defender",
     "The Scrappy Squad", "The Plodder", "The Mid-Pack",
     "The Offensive Minded", "The Defensive Minded", "The Underdog",
     "The Cinderella Hopeful", "The Defense-First", "The Offense-Only"
    }

Tiers == {"Elite", "Good", "Average", "Below Average", "Weak"}

Tempos == {"Fast", "Medium", "Slow"}

\* the thresholds assign_archetype passes to get_tier
TierThresholds == [elite |-> 25, good |-> 75, average |-> 150, below_avg |-> 250]

get_tier(rank, thresholds) ==
    IF rank = NaN THEN "Average"
    ELSE IF rank <= Get(thresholds, "elite", 25) THEN "Elite"
    ELSE IF rank <= Get(thresholds, "good", 75) THEN "Good"
    ELSE IF rank <= Get(thresholds, "average", 150) THEN "Average"
    ELSE IF rank <= Get(thresholds, "below_avg", 250) THEN "Below Average"
    ELSE "Weak"

get_tempo(rank) ==
    IF rank = NaN THEN "Medium"
    ELSE IF rank <= 100 THEN "Fast"
    ELSE IF rank <= 250 THEN "Medium"
    ELSE "Slow"

\* key = (off_tier, def_tier, tempo)
ArchetypeKey(row) ==
    <<get_tier(Get(row, "RankAdjOE", NaN), TierThresholds),
      get_tier(Get(row, "RankAdjDE", NaN), TierThresholds),
      get_tempo(Get(row, "RankAdjTempo", NaN))>>

\* (mutation of assign_archetype: no fallback for the keys the map lacks)
assign_archetype_NoFallback(row) == Get(ARCHETYPE_MAP, ArchetypeKey(row), "The Unknown")

assign_archetype(row) ==
    LET key == ArchetypeKey(row)
        off_tier == key[1]
        def_tier == key[2]
        name == Get(ARCHETYPE_MAP, key, None)
    IN  IF name # None THEN name
        ELSE IF "Weak" \in {off_tier, def_tier}
             THEN IF off_tier = "Weak" /\ def_tier = "Weak" THEN "The Cinderella Hopeful"
                  ELSE IF off_tier = "Weak" THEN "The Defense-First"
                  ELSE "The Offense-Only"
        ELSE "The Unknown"

\* ranks on both sides of every threshold, and a missing rank
RankSamples == {NaN, 1, 25, 26, 75, 76, 100, 101, 150, 151, 250, 251, 363}

RankColumns == {"RankAdjOE", "RankAdjDE", "RankAdjTempo"}

\* a team's row: any of the rank columns may be missing from it
RankRows == UNION {[cols -> RankSamples] : cols \in SUBSET RankColumns}

\* out.apply(lambda r: cls.assign_archetype(r, ...), axis=1), one row
AssignArchetype ==
    /\ archetype = None
    /\ archetype' = assign_archetype(rank_row)
    /\ UNCHANGED <<fetchVars, pipeVars, seedVars, rank_row, step2Vars, statsVars, step1Vars>>

InitArch ==
    /\ IdlePipe
    /\ IdleStats
    /\ IdleSeed
    /\ IdleStep2
    /\ IdleStep1
    /\ IdleFetch
    /\ rank_row \in RankRows
    /\ archetype = None

NextArch == AssignArchetype

SpecArch == InitArch /\ [][NextArch]_vars

\* C8: assign_archetype gives every row, whatever its tiers, one of the named
\* archetypes and never 'The Unknown'; every one of the 5 x 5 x 3 tier
\* combinations that ARCHETYPE_MAP lacks has a 'Weak' tier, so the fallback
\* names it.
C8_AssignArchetypeTotal ==
    /\ \A key \in (Tiers \X Tiers \X Tempos) \ DOMAIN ARCHETYPE_MAP :
            "Weak" \in {key[1], key[2]}
    /\ archetype # None =>
            /\ ArchetypeKey(rank_row) \in Tiers \X Tiers \X Tempos
            /\ archetype \in ARCHETYPE_DESCRIPTIONS
            /\ archetype # "The Unknown"
            /\ (ArchetypeKey(rank_row) \notin DOMAIN ARCHETYPE_MAP =>
                    "Weak" \in {ArchetypeKey(rank_row)[1], ArchetypeKey(rank_row)[2]})

C8_Witness ==
    /\ archetype = "The Offense-Only"
    /\ ArchetypeKey(rank_row) = <<"Average", "Weak", "Medium">>
    /\ ArchetypeKey(rank_row) \notin DOMAIN ARCHETYPE_MAP

(***************************************************************************)
(* Unified pipeline, step 2: the injury adjustment of a prediction         *)
(* Probabilities and adjustments are millionths, star_dependency_pct is    *)
(* tenths of a percent, production (BPM) is thousandths.                   *)
(***************************************************************************)
MaxRuns == 2           \* executions of run_step2 over one prediction file

\* np.clip(x, lo, hi)
Clip(x, lo, hi) == IF x < lo THEN lo ELSE IF x > hi THEN hi ELSE x

\* round(x, n): the multiple of unit (10 ** -n) nearest to x
RoundTo(x, unit) ==
    IF x >= 0 THEN ((x + unit \div 2) \div unit) * unit
    ELSE -((((-x) + unit \div 2) \div unit) * unit)

\* (mutation of compute_injury_adj: the sum of the two terms is returned unclipped)
compute_injury_adj_NoClip(row) ==
    IF row = Absent THEN 0
    ELSE LET star ==
                 IF Get(row, "star_is_injured", FALSE)
                 THEN LET dep == Get(row, "star_dependency_pct", 500)
                          bpm == Get(row, "star_player_bpm", 0)
                          bpm_factor == Min({Quot(bpm, 4), 1000})
                          scale == IF dep >= 500 THEN 120 ELSE 70
                      IN  Quot(scale * bpm_factor * dep, 1000)
                 ELSE 0
             total_inj == Get(row, "team_total_injury_bpm", 0)
             given_bpm == Get(row, "team_total_bpm", 1000)
             total_bpm == IF given_bpm = 0 THEN 1000 ELSE given_bpm
             share == Min({Quot(total_inj * 1000, total_bpm), 500})
         IN  RoundTo(0 - star - 80 * share, 100)

compute_injury_adj(row) ==
    IF row = Absent THEN 0
    ELSE LET star ==
                 IF Get(row, "star_is_injured", FALSE)
                 THEN LET dep == Get(row, "star_dependency_pct", 500)
                          bpm == Get(row, "star_player_bpm", 0)
                          bpm_factor == Min({Quot(bpm, 4), 1000})
                          scale == IF dep >= 500 THEN 120 ELSE 70
                      IN  Quot(scale * bpm_factor * dep, 1000)
                 ELSE 0
             total_inj == Get(row, "team_total_injury_bpm", 0)
             given_bpm == Get(row, "team_total_bpm", 1000)
             total_bpm == IF given_bpm = 0 THEN 1000 ELSE given_bpm
             share == Min({Quot(total_inj * 1000, total_bpm), 500})
             adj == 0 - star - 80 * share
         IN  RoundTo(Clip(adj, -150000, 0), 100)

get_confidence(prob) ==
    LET p == Max({prob, 1000000 - prob})
    IN  IF p >= 850000 THEN "lock"
        ELSE IF p >= 720000 THEN "strong"
        ELSE IF p >= 600000 THEN "lean"
        ELSE IF p >= 520000 THEN "toss-up"
        ELSE "coin-flip"

\* the flag's kind; its text also names the seed or the team
compute_upset_flag_v2(s1, s2, prob, t1_ctx, t2_ctx) ==
    LET gap == Abs(s1 - s2)
        fav_prob == IF s1 <= s2 THEN prob ELSE 1000000 - prob
    IN  IF Get(t2_ctx, "star_is_injured", FALSE) /\ gap >= 3 THEN "INJURY UPSET"
        ELSE IF Get(t1_ctx, "star_is_injured", FALSE) /\ gap >= 3 THEN "INJURY RISK"
        ELSE IF fav_prob < 500000 THEN "UPSET ALERT"
        ELSE IF fav_prob < 600000 /\ gap >= 3 THEN "UPSET WATCH"
        ELSE IF gap >= 4 /\ fav_prob < 720000 THEN "SLEEPER"
        ELSE "chalk"

build_injury_ctx(row, team_name) ==
    IF row = Absent
    THEN [team |-> team_name, has_injuries |-> FALSE, star_is_injured |-> FALSE,
          n_injured |-> 0]
    ELSE [team |-> team_name,
          has_injuries |-> Get(row, "n_injured", 0) > 0,
          star_is_injured |-> Get(row, "star_is_injured", FALSE),
          star_player_bpm |-> Get(row, "star_player_bpm", 0),
          star_dependency_pct |-> Get(row, "star_dependency_pct", 500),
          n_injured |-> Get(row, "n_injured", 0),
          team_injury_bpm_lost |-> Get(row, "team_total_injury_bpm", 0)]

\* (mutation of AdjustedProb: the two teams' adjustments change places)
AdjustedProb_Swapped(base, t1_adj, t2_adj) ==
    RoundTo(Clip(base - t1_adj + t2_adj, 20000, 980000), 10)

\* (mutation of AdjustedProb: only team 1's adjustment is applied)
AdjustedProb_OwnOnly(base, t1_adj, t2_adj) ==
    RoundTo(Clip(base + t1_adj, 20000, 980000), 10)

\* adj = round(float(np.clip(base + t1_adj - t2_adj, 0.02, 0.98)), 5)
AdjustedProb(base, t1_adj, t2_adj) ==
    RoundTo(Clip(base + t1_adj - t2_adj, 20000, 980000), 10)

\* step 1: get_confidence_tier
get_confidence_tier(prob) ==
    LET p == Max({prob, 1000000 - prob})
    IN  IF p >= 850000 THEN "LOCK"
        ELSE IF p >= 720000 THEN "STRONG"
        ELSE IF p >= 600000 THEN "LEAN"
        ELSE IF p >= 520000 THEN "TOSS-UP"
        ELSE "COIN FLIP"

\* step 1: get_upset_flag (the flag's kind)
get_upset_flag(s1, s2, prob) ==
    LET favorite_seed == Min({s1, s2})
        underdog_seed == Max({s1, s2})
        favorite_prob == IF s1 < s2 THEN prob ELSE 1000000 - prob
    IN  IF favorite_prob < 500000 THEN "UPSET ALERT"
        ELSE IF favorite_prob < 600000 THEN "UPSET WATCH"
        ELSE IF underdog_seed - favorite_seed >= 4 /\ favorite_prob < 700000 THEN "SLEEPER"
        ELSE "chalk"

\* export_step1_json: the fields of pred_entry that step 2 reads or rewrites
Step1Entry(model_prob, t1_seed, t2_seed) ==
    [t1_name |-> "Duke", t2_name |-> "Auburn", t1_seed |-> t1_seed, t2_seed |-> t2_seed,
     model_win_prob |-> model_prob,
     confidence |-> get_confidence_tier(model_prob),
     upset_flag |-> get_upset_flag(t1_seed, t2_seed, model_prob),
     model_agrees_with_seed |-> ((model_prob > 500000) = (t1_seed < t2_seed)),
     predicted_winner_name |-> IF model_prob > 500000 THEN "Duke" ELSE "Auburn",
     predicted_winner_seed |-> IF model_prob > 500000 THEN t1_seed ELSE t2_seed]

\* (mutation of PatchPrediction: the tier and the flag are taken of the base)
PatchPrediction_TierOfBase(p, r1, r2) ==
    LET t1_adj == compute_injury_adj(r1)
        t2_adj == compute_injury_adj(r2)
        base == Get(p, "model_win_prob", 500000)
        adj == AdjustedProb(base, t1_adj, t2_adj)
        t1_ctx == build_injury_ctx(r1, Get(p, "t1_name", ""))
        t2_ctx == build_injury_ctx(r2, Get(p, "t2_name", ""))
        flipped == (adj > 500000) # (base > 500000)
    IN  [model_win_prob_original |-> base,
         model_win_prob |-> adj,
         injury_adjusted |-> (t1_adj # 0 \/ t2_adj # 0),
         t1_injury_adj |-> t1_adj,
         t2_injury_adj |-> t2_adj,
         t1_injury |-> t1_ctx,
         t2_injury |-> t2_ctx,
         upset_flag |-> compute_upset_flag_v2(Get(p, "t1_seed", 8), Get(p, "t2_seed", 8),
                                              base, t1_ctx, t2_ctx),
         confidence |-> get_confidence(base),
         pick_flipped_by_injury |-> flipped,
         predicted_winner_name |->
            IF flipped THEN (IF adj > 500000 THEN p.t1_name ELSE p.t2_name)
            ELSE p.predicted_winner_name]
        @@ p

\* run_step2: the body of the loop over the predictions (the response texts left out)
PatchPrediction(p, r1, r2) ==
    LET t1_adj == compute_injury_adj(r1)
        t2_adj == compute_injury_adj(r2)
        base == Get(p, "model_win_prob", 500000)
        adj == AdjustedProb(base, t1_adj, t2_adj)
        t1_ctx == build_injury_ctx(r1, Get(p, "t1_name", ""))
        t2_ctx == build_injury_ctx(r2, Get(p, "t2_name", ""))
        flipped == (adj > 500000) # (base > 500000)
    IN  [model_win_prob_original |-> base,
         model_win_prob |-> adj,
         injury_adjusted |-> (t1_adj # 0 \/ t2_adj # 0),
         t1_injury_adj |-> t1_adj,
         t2_injury_adj |-> t2_adj,
         t1_injury |-> t1_ctx,
         t2_injury |-> t2_ctx,
         upset_flag |-> compute_upset_flag_v2(Get(p, "t1_seed", 8), Get(p, "t2_seed", 8),
                                              adj, t1_ctx, t2_ctx),
         confidence |-> get_confidence(adj),
         pick_flipped_by_injury |-> flipped,
         predicted_winner_name |->
            IF flipped THEN (IF adj > 500000 THEN p.t1_name ELSE p.t2_name)
            ELSE p.predicted_winner_name]
        @@ p

\* probabilities step 1 can export (it exports the ensemble's value as it is)
BaseProbs == {0, 7000, 123456, 400075, 499999, 500001, 612347, 850000, 979996, 1000000}

SeedPairs == {<<1, 16>>, <<9, 8>>, <<5, 5>>}

\* rows of build_team_summary: the injured production and the team's production
TeamTotals ==
    {[inj |-> 0, bpm |-> 10000, n |-> 0], [inj |-> 3000, bpm |-> 10000, n |-> 1],
     [inj |-> 9000, bpm |-> 10000, n |-> 2], [inj |-> 3000, bpm |-> -5000, n |-> 1],
     [inj |-> 4000, bpm |-> 0, n |-> 1]}

TeamRow(star, dep, bpm, t) ==
    [star_is_injured |-> star, star_dependency_pct |-> dep, star_player_bpm |-> bpm,
     team_total_injury_bpm |-> t.inj, team_total_bpm |-> t.bpm, n_injured |-> t.n]

TeamRows ==
    {TeamRow(TRUE, dep, bpm, t) :
        dep \in {300, 500, 2500}, bpm \in {-2000, 2000, 9000},
        t \in {x \in TeamTotals : x.n > 0 /\ x.bpm # 0}}
    \cup {TeamRow(FALSE, 500, 2000, t) : t \in TeamTotals}

\* lookup.get(t1), lookup.get(t2): a team's row, or None for a team not in the summary
LookupResults == TeamRows \cup {Absent}

\* run_step2 with player data: every prediction is patched
RunStep2 ==
    /\ runs < MaxRuns
    /\ pred' = PatchPrediction(pred, lookup[1], lookup[2])
    /\ runs' = runs + 1
    /\ UNCHANGED <<fetchVars, pipeVars, seedVars, archVars, statsVars, step1Vars, lookup, step1_pred>>

\* run_step2 when player_df is empty: the data is returned as it was given
RunStep2NoPlayers ==
    /\ runs < MaxRuns
    /\ runs' = runs + 1
    /\ UNCHANGED <<fetchVars, pipeVars, seedVars, archVars, statsVars, step1Vars, pred, lookup, step1_pred>>

InitStep2 ==
    /\ IdlePipe
    /\ IdleStats
    /\ IdleSeed
    /\ IdleArch
    /\ IdleFetch
    /\ IdleStep1
    /\ step1_pred \in {Step1Entry(b, s[1], s[2]) : b \in BaseProbs, s \in SeedPairs}
    /\ pred = step1_pred
    /\ lookup \in LookupResults \X LookupResults
    /\ runs = 0

NextStep2 == RunStep2 \/ RunStep2NoPlayers

SpecStep2 == InitStep2 /\ [][NextStep2]_vars

\* a patched prediction: run_step2 has rewritten it at least once
Patched == "model_win_prob_original" \in DOMAIN pred

\* a team's penalty: the magnitude of its compute_injury_adj value
Penalty(row) == Abs(compute_injury_adj(row))

\* C10 (as stated): the probability run_step2 writes is exactly
\* clip(base + team2_penalty - team1_penalty, 0.02, 0.98).
C10_WrittenProbIsClip ==
    Patched =>
        pred.model_win_prob =
            Clip(pred.model_win_prob_original + Penalty(lookup[2]) - Penalty(lookup[1]),
                 20000, 980000)

\* C10 (amended): the probability run_step2 writes is
\* clip(base + team2_penalty - team1_penalty, 0.02, 0.98) rounded to five
\* decimal places, and it lies in [0.02, 0.98].
C10_WrittenProbIsRoundedClip ==
    Patched =>
        /\ pred.model_win_prob =
              RoundTo(Clip(pred.model_win_prob_original + Penalty(lookup[2])
                           - Penalty(lookup[1]), 20000, 980000), 10)
        /\ pred.model_win_prob >= 20000
        /\ pred.model_win_prob <= 980000
        /\ pred.t1_injury_adj = -Penalty(lookup[1])
        /\ pred.t2_injury_adj = -Penalty(lookup[2])

C10_Witness ==
    /\ Patched
    /\ lookup[1] # Absent
    /\ lookup[2] = Absent
    /\ pred.t1_injury_adj = -150000
    /\ pred.model_win_prob_original = 123456
    /\ pred.model_win_prob = 20000

\* C11: compute_injury_adj of a team's row, and of a team without a row, lies
\* in [-0.15, 0], and so do the two adjustments run_step2 writes to a record.
C11_InjuryAdjWithinBounds ==
    /\ \A i \in {1, 2} :
          /\ compute_injury_adj(lookup[i]) >= -150000
          /\ compute_injury_adj(lookup[i]) <= 0
    /\ Patched =>
          /\ pred.t1_injury_adj >= -150000 /\ pred.t1_injury_adj <= 0
          /\ pred.t2_injury_adj >= -150000 /\ pred.t2_injury_adj <= 0

\* team 1's two terms sum to a bonus (a star of negative production), team 2's
\* to more than the maximum penalty; run_step2 has written both adjustments
C11_Witness ==
    /\ Patched
    /\ lookup[1] # Absent
    /\ lookup[2] # Absent
    /\ lookup[1].star_is_injured
    /\ lookup[1].star_player_bpm < 0
    /\ lookup[1].team_total_bpm < 0
    /\ pred.t1_injury_adj = 0
    /\ lookup[2].star_is_injured
    /\ lookup[2].star_dependency_pct = 2500
    /\ lookup[2].star_player_bpm = 9000
    /\ pred.t2_injury_adj = -150000

\* C12: whatever the number of executions of run_step2 over the prediction
\* file, the record's model_win_prob_original is the probability step 1 exported.
C12_OriginalIsStep1Prob ==
    Patched => pred.model_win_prob_original = step1_pred.model_win_prob

\* C13: after any number of executions of run_step2 with the same team rows
\* the record's model_win_prob is the one a single execution gives.
C13_SecondRunChangesNothing ==
    Patched =>
        pred.model_win_prob =
            PatchPrediction(step1_pred, lookup[1], lookup[2]).model_win_prob

\* a team's row with the star marked injured or not, the other fields as they are
WithStar(row, injured) == [row EXCEPT !.star_is_injured = injured]

MirroredProb ==
    PatchPrediction([pred EXCEPT !.model_win_prob = 1000000 - pred.model_win_prob_original],
                    lookup[2], lookup[1]).model_win_prob

\* C25 (as stated): swapping the two teams' rows and replacing the base
\* probability p by 1 - p gives exactly 1 - (adjusted probability).
C25_SwapGivesComplement ==
    Patched => MirroredProb = 1000000 - pred.model_win_prob

\* C25 (amended): swapping the two teams' rows and replacing the base
\* probability p by 1 - p gives 1 - (adjusted probability) up to the rounding
\* of both written values to five decimal places: the two differ by at most
\* 0.00001.
C25_SwapGivesComplementRounded ==
    Patched => Abs(MirroredProb + pred.model_win_prob - 1000000) <= 10

\* both teams have a row and different non-zero adjustments; the written
\* probability is inside the clip interval and off the middle
C25_Witness ==
    /\ Patched
    /\ runs = 1
    /\ lookup[1] # Absent
    /\ lookup[2] # Absent
    /\ pred.t1_injury_adj # 0
    /\ pred.t2_injury_adj # 0
    /\ pred.t1_injury_adj # pred.t2_injury_adj
    /\ pred.model_win_prob > 20000
    /\ pred.model_win_prob < 980000
    /\ pred.model_win_prob # pred.model_win_prob_original
    /\ MirroredProb = 1000000 - pred.model_win_prob

\* the tier of a probability: of max(p, 1 - p) against 0.85 / 0.72 / 0.60 / 0.52
TierOf(p) ==
    LET m == IF p >= 1000000 - p THEN p ELSE 1000000 - p
    IN  CASE m >= 850000 -> "lock"
          [] m < 850000 /\ m >= 720000 -> "strong"
          [] m < 720000 /\ m >= 600000 -> "lean"
          [] m < 600000 /\ m >= 520000 -> "toss-up"
          [] m < 520000 -> "coin-flip"

\* C26: after run_step2 has patched a record, its confidence is the tier of
\* the adjusted probability (of max(p, 1 - p) against 0.85 / 0.72 / 0.60 /
\* 0.52), not of the original one, and its upset_flag is the flag of the
\* adjusted probability.
C26_TierAndFlagOfAdjustedProb ==
    Patched =>
        /\ pred.confidence = TierOf(pred.model_win_prob)
        /\ pred.upset_flag =
              compute_upset_flag_v2(pred.t1_seed, pred.t2_seed, pred.model_win_prob,
                                    pred.t1_injury, pred.t2_injury)

\* a patched record whose tier and flag are not those of its original probability
C26_Witness ==
    /\ Patched
    /\ pred.confidence # TierOf(pred.model_win_prob_original)
    /\ pred.confidence = "lean"
    /\ pred.upset_flag #
          compute_upset_flag_v2(pred.t1_seed, pred.t2_seed, pred.model_win_prob_original,
                                pred.t1_injury, pred.t2_injury)

\* C27: after run_step2 every pick-derived field of the record agrees with the
\* adjusted model_win_prob: predicted_winner_name is T1's name exactly when
\* it is above 0.5, predicted_winner_seed is that team's seed, and
\* model_agrees_with_seed is the agreement of the adjusted pick with the seeds.
C27_PickFieldsFollowAdjustedProb ==
    Patched =>
        LET t1_picked == pred.model_win_prob > 500000
        IN  /\ pred.predicted_winner_name = (IF t1_picked THEN pred.t1_name ELSE pred.t2_name)
            /\ pred.predicted_winner_seed = (IF t1_picked THEN pred.t1_seed ELSE pred.t2_seed)
            /\ pred.model_agrees_with_seed = (t1_picked = (pred.t1_seed < pred.t2_seed))

\* C29 (as stated): with team 2's penalty zero the probability run_step2
\* writes is never above the base probability, and with team 1's penalty
\* zero never below it.
C29_OwnInjuriesNeverRaiseProb ==
    Patched =>
        /\ pred.t2_injury_adj = 0 => pred.model_win_prob <= pred.model_win_prob_original
        /\ pred.t1_injury_adj = 0 => pred.model_win_prob >= pred.model_win_prob_original

\* the base probability as run_step2 writes it when no team has a penalty:
\* clipped to [0.02, 0.98] and rounded to five decimal places
WrittenBase == RoundTo(Clip(pred.model_win_prob_original, 20000, 980000), 10)

\* C29 (amended): with team 2's penalty zero the probability run_step2 writes
\* is never above the base probability clipped to [0.02, 0.98] and rounded to
\* five decimal places, and with team 1's penalty zero never below it.
C29_OwnInjuriesNeverRaiseWrittenProb ==
    Patched =>
        /\ pred.t2_injury_adj = 0 => pred.model_win_prob <= WrittenBase
        /\ pred.t1_injury_adj = 0 => pred.model_win_prob >= WrittenBase

\* team 1 has a penalty and team 2 none, and the written probability is below
\* the base; the base is inside the clip interval
C29_Witness ==
    /\ Patched
    /\ runs = 1
    /\ pred.t1_injury_adj < 0
    /\ pred.t2_injury_adj = 0
    /\ pred.model_win_prob_original > 20000
    /\ pred.model_win_prob_original < 980000
    /\ pred.model_win_prob < pred.model_win_prob_original
    /\ pred.model_win_prob > 20000

(***************************************************************************)
(* Season statistics, both pipelines                                       *)
(* Means, rates and per-game figures are thousandths; sums are whole.      *)
(***************************************************************************)
MaxStatGames == 2      \* rows in the regular-season table the statistics are taken of

StatTeams == {1101, 1102, 1103}

\* a team's box score in a game
BoxScores ==
    {[FGM |-> 26, FGA |-> 58, FGM3 |-> 7, FGA3 |-> 20, FTM |-> 14, FTA |-> 19, OR |-> 10,
      DR |-> 25, Ast |-> 14, TO |-> 12, Stl |-> 6, Blk |-> 4, PF |-> 17],
     [FGM |-> 0, FGA |-> 0, FGM3 |-> 0, FGA3 |-> 0, FTM |-> 0, FTA |-> 0, OR |-> 0,
      DR |-> 0, Ast |-> 0, TO |-> 0, Stl |-> 0, Blk |-> 0, PF |-> 0]}

LoserBox ==
    [FGM |-> 24, FGA |-> 60, FGM3 |-> 5, FGA3 |-> 18, FTM |-> 15, FTA |-> 22, OR |-> 9,
     DR |-> 22, Ast |-> 11, TO |-> 14, Stl |-> 5, Blk |-> 2, PF |-> 19]

\* the winner's columns of a detailed result row
WBox(b) ==
    [WFGM |-> b.FGM, WFGA |-> b.FGA, WFGM3 |-> b.FGM3, WFGA3 |-> b.FGA3, WFTM |-> b.FTM, WFTA |-> b.FTA, WOR |-> b.OR,
     WDR |-> b.DR, WAst |-> b.Ast, WTO |-> b.TO, WStl |-> b.Stl, WBlk |-> b.Blk, WPF |-> b.PF]

\* the loser's columns of a detailed result row
LBox(b) ==
    [LFGM |-> b.FGM, LFGA |-> b.FGA, LFGM3 |-> b.FGM3, LFGA3 |-> b.FGA3, LFTM |-> b.FTM, LFTA |-> b.FTA, LOR |-> b.OR,
     LDR |-> b.DR, LAst |-> b.Ast, LTO |-> b.TO, LStl |-> b.Stl, LBlk |-> b.Blk, LPF |-> b.PF]

\* rows of the detailed regular-season results
StatRows ==
    {[Season |-> 2024, DayNum |-> d, WTeamID |-> p[1], LTeamID |-> p[2], WScore |-> 75,
      LScore |-> 68, WLoc |-> "N"] @@ WBox(b) @@ LBox(LoserBox) :
        d \in {100, 130}, p \in {q \in StatTeams \X StatTeams : q[1] # q[2]},
        b \in BoxScores}

RECURSIVE SumOf(_, _)
\* grp[col].sum()
SumOf(grp, col) ==
    IF grp = {} THEN 0
    ELSE LET g == CHOOSE x \in grp : TRUE IN g[col] + SumOf(grp \ {g}, col)

\* grp[col].mean(), in thousandths
MeanOf(grp, col) == (SumOf(grp, col) * 1000) \div Cardinality(grp)

\* a * m / b for a >= 0, b > 0, without leaving the integers' range
MulDiv(a, m, b) == (a \div b) * m + ((a % b) * m) \div b

\* float arithmetic with np.nan: an operation on NaN gives NaN, a comparison
\* with NaN is False
NAdd(a, b) == IF a = NaN \/ b = NaN THEN NaN ELSE a + b

NSub(a, b) == IF a = NaN \/ b = NaN THEN NaN ELSE a - b

NGt(a, b) == a # NaN /\ b # NaN /\ a > b

NMulDiv(a, m, b) == IF a = NaN \/ b = NaN THEN NaN ELSE MulDiv(a, m, b)

\* a * m / d for whole m and d
NScale(a, m, d) == IF a = NaN THEN NaN ELSE (a * m) \div d

\* x ** 8 for x in thousandths, x at most 2
Pow8Milli(x) ==
    LET x2 == (x * x) \div 1000
        x4 == (x2 * x2) \div 1000
    IN  (x4 * x4) \div 1000

(***************************************************************************)
(* Unified pipeline: compute_season_stats                                  *)
(***************************************************************************)
\* the record of a team's wins of a season
UWinRecord(grp) ==
    [W_games |-> Cardinality(grp) * 1000, W_score |-> MeanOf(grp, "WScore"),
     W_fgm |-> MeanOf(grp, "WFGM"), W_fga |-> MeanOf(grp, "WFGA"),
     W_fgm3 |-> MeanOf(grp, "WFGM3"), W_fga3 |-> MeanOf(grp, "WFGA3"),
     W_ftm |-> MeanOf(grp, "WFTM"), W_fta |-> MeanOf(grp, "WFTA"),
     W_or |-> MeanOf(grp, "WOR"), W_dr |-> MeanOf(grp, "WDR"),
     W_ast |-> MeanOf(grp, "WAst"), W_to |-> MeanOf(grp, "WTO"),
     W_stl |-> MeanOf(grp, "WStl"), W_blk |-> MeanOf(grp, "WBlk"),
     W_pf |-> MeanOf(grp, "WPF"), opp_score |-> MeanOf(grp, "LScore")]

\* the record of a team's losses of a season
ULossRecord(grp) ==
    [L_games |-> Cardinality(grp) * 1000, L_score |-> MeanOf(grp, "LScore"),
     L_fgm |-> MeanOf(grp, "LFGM"), L_fga |-> MeanOf(grp, "LFGA"),
     L_fgm3 |-> MeanOf(grp, "LFGM3"), L_fga3 |-> MeanOf(grp, "LFGA3"),
     L_ftm |-> MeanOf(grp, "LFTM"), L_fta |-> MeanOf(grp, "LFTA"),
     L_or |-> MeanOf(grp, "LOR"), L_dr |-> MeanOf(grp, "LDR"),
     L_ast |-> MeanOf(grp, "LAst"), L_to |-> MeanOf(grp, "LTO"),
     L_stl |-> MeanOf(grp, "LStl"), L_blk |-> MeanOf(grp, "LBlk"),
     L_pf |-> MeanOf(grp, "LPF"), opp_score_L |-> MeanOf(grp, "WScore")]

UWinColumns == DOMAIN UWinRecord(StatRows)

ULossColumns == DOMAIN ULossRecord(StatRows)

\* df.groupby(['Season', 'TeamID']).agg('mean'): a column's mean over the
\* team's records that have it, NaN when none has
UAggMean(table, s, t) ==
    LET w == {g \in table : g.Season = s /\ g.WTeamID = t}
        l == {g \in table : g.Season = s /\ g.LTeamID = t}
    IN  (IF w = {} THEN [c \in UWinColumns |-> NaN] ELSE UWinRecord(w))
        @@ (IF l = {} THEN [c \in ULossColumns |-> NaN] ELSE ULossRecord(l))

\* ppg**8 / (ppg**8 + opp_ppg**8), for ppg + opp_ppg > 0
UPyth(ppg, opp_ppg) ==
    IF ppg = 0 THEN 0
    ELSE 1000000 \div (1000 + Pow8Milli(Min({MulDiv(opp_ppg, 1000, ppg), 2000})))

\* the columns compute_season_stats adds to the aggregated row a
UDerived(a) ==
    LET wins == a.W_games
        losses == a.L_games
        total_games == NAdd(wins, losses)
        ppg == a.W_score
        opp_ppg == a.opp_score
        fga == a.W_fga
        fgm == a.W_fgm
        fga3 == a.W_fga3
        fgm3 == a.W_fgm3
        fta == a.W_fta
        to == a.W_to
        oreb == a.W_or
        dreb == a.W_dr
        possessions ==
            NAdd(NAdd(NSub(fga, oreb), to), NScale(fta, 475, 1000))
        off_eff == IF NGt(possessions, 0) THEN NMulDiv(NScale(ppg, 100, 1), 1000, possessions)
                   ELSE 100000
        def_eff == IF NGt(possessions, 0) THEN NMulDiv(NScale(opp_ppg, 100, 1), 1000, possessions)
                   ELSE 100000
    IN  [wins |-> wins,
         losses |-> losses,
         win_pct |-> IF NGt(total_games, 0) THEN NMulDiv(wins, 1000, total_games) ELSE 500,
         ppg |-> ppg,
         opp_ppg |-> opp_ppg,
         point_diff |-> NSub(ppg, opp_ppg),
         pyth |-> IF NGt(NAdd(ppg, opp_ppg), 0) THEN UPyth(ppg, opp_ppg) ELSE 500,
         possessions |-> possessions,
         off_eff |-> off_eff,
         def_eff |-> def_eff,
         net_eff |-> NSub(off_eff, def_eff),
         efg_pct |-> IF NGt(fga, 0) THEN NMulDiv(NAdd(fgm, NScale(fgm3, 1, 2)), 1000, fga) ELSE 450,
         to_rate |-> IF NGt(possessions, 0) THEN NMulDiv(to, 1000, possessions) ELSE 150,
         ft_rate |-> IF NGt(fga, 0) THEN NMulDiv(fta, 1000, fga) ELSE 300,
         oreb_pct |-> IF NGt(NAdd(oreb, dreb), 0) THEN NMulDiv(oreb, 1000, NAdd(oreb, dreb))
                      ELSE 300,
         three_rate |-> IF NGt(fga, 0) THEN NMulDiv(fga3, 1000, fga) ELSE 300,
         ast_rate |-> a.W_ast,
         blk_rate |-> a.W_blk,
         stl_rate |-> a.W_stl,
         tempo |-> possessions]

\* the (Season, TeamID) groups of the records
UStatGroups(table) ==
    {<<g.Season, g.WTeamID>> : g \in table} \cup {<<g.Season, g.LTeamID>> : g \in table}

compute_season_stats(table) ==
    {LET a == UAggMean(table, k[1], k[2])
     IN  [Season |-> k[1], TeamID |-> k[2]] @@ UDerived(a) @@ a : k \in UStatGroups(table)}

UComputeSeasonStats ==
    /\ variant = "unified"
    /\ pc \in {"idle", "done"}
    /\ team_stats = {}
    /\ team_stats' = compute_season_stats(regular)
    /\ UNCHANGED <<fetchVars, pipeVars, seedVars, archVars, step2Vars, step1Vars>>

(***************************************************************************)
(* v2 pipeline: build_season_features                                      *)
(***************************************************************************)
\* avg_score ** 10.25 / max(avg_score ** 10.25 + avg_allowed ** 10.25, 0.001),
\* the quarter power taken to first order around 1
V2Pyth(avg_score, avg_allowed) ==
    IF avg_score = 0 THEN 0
    ELSE LET q == Min({MulDiv(avg_allowed, 1000, avg_score), 2000})
             q2 == (q * q) \div 1000
             q10 == (Pow8Milli(q) * q2) \div 1000
             root4 == 1000 + Quot(q - 1000, 4)
         IN  1000000 \div (1000 + MulDiv(q10, root4, 1000))

\* the body of the loop over the teams that played in the season
V2TeamFeatures(rs, tid) ==
    LET wins == {g \in rs : g.WTeamID = tid}
        losses == {g \in rs : g.LTeamID = tid}
        n_wins == Cardinality(wins)
        n_losses == Cardinality(losses)
        n_games == n_wins + n_losses
        pts_for == SumOf(wins, "WScore") + SumOf(losses, "LScore")
        pts_against == SumOf(wins, "LScore") + SumOf(losses, "WScore")
        avg_score == (pts_for * 1000) \div n_games
        avg_allowed == (pts_against * 1000) \div n_games
        tot_fgm == SumOf(wins, "WFGM") + SumOf(losses, "LFGM")
        tot_fga == SumOf(wins, "WFGA") + SumOf(losses, "LFGA")
        tot_fgm3 == SumOf(wins, "WFGM3") + SumOf(losses, "LFGM3")
        tot_fga3 == SumOf(wins, "WFGA3") + SumOf(losses, "LFGA3")
        tot_ftm == SumOf(wins, "WFTM") + SumOf(losses, "LFTM")
        tot_fta == SumOf(wins, "WFTA") + SumOf(losses, "LFTA")
        tot_or == SumOf(wins, "WOR") + SumOf(losses, "LOR")
        tot_dr == SumOf(wins, "WDR") + SumOf(losses, "LDR")
        tot_ast == SumOf(wins, "WAst") + SumOf(losses, "LAst")
        tot_to == SumOf(wins, "WTO") + SumOf(losses, "LTO")
        tot_stl == SumOf(wins, "WStl") + SumOf(losses, "LStl")
        tot_blk == SumOf(wins, "WBlk") + SumOf(losses, "LBlk")
        opp_fgm == SumOf(wins, "LFGM") + SumOf(losses, "WFGM")
        opp_fga == SumOf(wins, "LFGA") + SumOf(losses, "WFGA")
        opp_fgm3 == SumOf(wins, "LFGM3") + SumOf(losses, "WFGM3")
        opp_or == SumOf(wins, "LOR") + SumOf(losses, "WOR")
        opp_to == SumOf(wins, "LTO") + SumOf(losses, "WTO")
        opp_fta == SumOf(wins, "LFTA") + SumOf(losses, "WFTA")
        opp_dr == SumOf(wins, "LDR") + SumOf(losses, "WDR")
        \* possessions, in thousandths; max(poss, 1)
        poss == 1000 * (tot_fga - tot_or + tot_to) + 440 * tot_fta
        opp_poss == 1000 * (opp_fga - opp_or + opp_to) + 440 * opp_fta
        poss1 == Max({poss, 1000})
        opp_poss1 == Max({opp_poss, 1000})
        off_eff == MulDiv(pts_for * 100000, 1000, poss1)
        def_eff == MulDiv(pts_against * 100000, 1000, opp_poss1)
        max_day == Max({g.DayNum : g \in rs})
        recent_w == Cardinality({g \in wins : g.DayNum >= max_day - 14})
        recent_l == Cardinality({g \in losses : g.DayNum >= max_day - 14})
    IN  [win_ratio |-> (n_wins * 1000) \div Max({n_games, 1}),
         avg_score |-> avg_score,
         avg_allowed |-> avg_allowed,
         avg_margin |-> Quot((pts_for - pts_against) * 1000, n_games),
         fg_pct |-> (tot_fgm * 1000) \div Max({tot_fga, 1}),
         fg3_pct |-> (tot_fgm3 * 1000) \div Max({tot_fga3, 1}),
         ft_pct |-> (tot_ftm * 1000) \div Max({tot_fta, 1}),
         efg |-> (tot_fgm * 1000 + 500 * tot_fgm3) \div Max({tot_fga, 1}),
         opp_efg |-> (opp_fgm * 1000 + 500 * opp_fgm3) \div Max({opp_fga, 1}),
         to_rate |-> MulDiv(tot_to * 1000, 1000, poss1),
         or_pct |-> (tot_or * 1000) \div Max({tot_or + opp_dr, 1}),
         dr_pct |-> (tot_dr * 1000) \div Max({tot_dr + opp_or, 1}),
         ast_rate |-> (tot_ast * 1000) \div Max({tot_fgm, 1}),
         ft_rate |-> (tot_fta * 1000) \div Max({tot_fga, 1}),
         three_rate |-> (tot_fga3 * 1000) \div Max({tot_fga, 1}),
         blk_stl |-> ((tot_blk + tot_stl) * 1000) \div n_games,
         off_eff |-> off_eff,
         def_eff |-> def_eff,
         net_eff |-> off_eff - def_eff,
         pyth |-> V2Pyth(avg_score, avg_allowed),
         recent_wr |-> (recent_w * 1000) \div Max({recent_w + recent_l, 1}),
         n_games |-> n_games,
         n_wins |-> n_wins]

build_season_features(reg, s) ==
    LET rs == {g \in reg : g.Season = s}
        all_teams == {g.WTeamID : g \in rs} \cup {g.LTeamID : g \in rs}
    IN  [tid \in all_teams |-> V2TeamFeatures(rs, tid)]

\* main: season_features[season] = build_season_features(reg, season), 2003..2025
V2BuildSeasonFeatures ==
    /\ season_features = << >>
    /\ season_features' =
            [s \in V2_FIRST_SEASON..V2_PRED_SEASON |-> build_season_features(regular, s)]
    /\ UNCHANGED <<variant, regular, pc, eloVars, trn, seeds, kenpom_by_team, train_df,
                   feature_cols, auxVars>>

InitStats ==
    /\ variant = "unified"
    /\ regular \in TablesUpTo(StatRows, MaxStatGames) \ {{}}
    /\ elo = << >>
    /\ season_elos = {}
    /\ pc = "idle"
    /\ season = 0
    /\ pending = {}
    /\ applied = << >>
    /\ trn = {}
    /\ seeds = << >>
    /\ season_features = << >>
    /\ kenpom_by_team = << >>
    /\ train_df = << >>
    /\ feature_cols = << >>
    /\ IdleSeed
    /\ IdleArch
    /\ IdleFetch
    /\ IdleStep2
    /\ IdleStep1
    /\ team_stats = {}

NextStats == UComputeSeasonStats \/ V2BuildSeasonFeatures

SpecStats == InitStats /\ [][NextStats]_vars

\* the team played in the season and won none or lost none of its games
ZeroWinsOrLosses(s, t) ==
    /\ \E g \in regular : g.Season = s /\ t \in {g.WTeamID, g.LTeamID}
    /\ \/ ~\E g \in regular : g.Season = s /\ g.WTeamID = t
       \/ ~\E g \in regular : g.Season = s /\ g.LTeamID = t

\* the statistics of the unified aggregator the claim names
URateColumns ==
    {"win_pct", "ppg", "opp_ppg", "point_diff", "possessions", "tempo", "off_eff",
     "def_eff", "net_eff", "efg_pct", "to_rate", "ft_rate", "oreb_pct", "three_rate", "pyth"}

\* C7: for a team with no win or no loss in a season (and a game in it) every
\* statistic either aggregator emits for the team is a number, none is NaN.
C7_StatsFinite ==
    /\ \A r \in team_stats :
          ZeroWinsOrLosses(r.Season, r.TeamID) => \A c \in URateColumns : r[c] # NaN
    /\ \A s \in DOMAIN season_features : \A t \in DOMAIN season_features[s] :
          ZeroWinsOrLosses(s, t) =>
              \A c \in DOMAIN season_features[s][t] : season_features[s][t][c] # NaN

\* the games of the season the team won, and those it lost
WinsOf(s, t) == Cardinality({g \in regular : g.Season = s /\ g.WTeamID = t})

LossesOf(s, t) == Cardinality({g \in regular : g.Season = s /\ g.LTeamID = t})

\* wins / (wins + losses), in thousandths
WinShare(s, t) == (WinsOf(s, t) * 1000) \div (WinsOf(s, t) + LossesOf(s, t))

\* C21: for every team with a game in a season the aggregated win ratio is
\* wins / (wins + losses), so 1 for an undefeated team and 0 for a winless
\* one, in the unified aggregator (win_pct) and in the v2 one (win_ratio).
C21_WinRatioIsWinsOverGames ==
    /\ \A r \in team_stats : r.win_pct = WinShare(r.Season, r.TeamID)
    /\ \A s \in DOMAIN season_features : \A t \in DOMAIN season_features[s] :
          season_features[s][t].win_ratio = WinShare(s, t)

(***************************************************************************)
(* Step 1: inputs of a whole run of main                                   *)
(***************************************************************************)
MaxMatchups == 3       \* rows in the unified pipeline's tournament table

Step1Teams == {1101, 1102, 1103}

\* a detailed regular-season row
SampleGame(s, d, w, l) ==
    [Season |-> s, DayNum |-> d, WTeamID |-> w, LTeamID |-> l, WScore |-> 75,
     LScore |-> 68, WLoc |-> "N"]
        @@ WBox(CHOOSE b \in BoxScores : b.FGA > 0) @@ LBox(LoserBox)

\* regular-season tables: none, two teams splitting two seasons, three teams
RegularTables ==
    {{},
     {SampleGame(2024, 100, 1101, 1102), SampleGame(2025, 100, 1102, 1101)},
     {SampleGame(2024, 100, 1101, 1102), SampleGame(2024, 130, 1102, 1103),
      SampleGame(2025, 100, 1103, 1101)}}

\* seed tables: every team seeded every season (two of them on the same line),
\* and one with unseeded teams
SeedTables ==
    {[k \in {2023, 2024, 2025} \X Step1Teams |->
            IF k[2] = 1101 THEN 1 ELSE IF k[2] = 1102 THEN 16 ELSE 1],
     (<<2025, 1101>> :> 1) @@ (<<2025, 1102>> :> 16) @@ (<<2024, 1101>> :> 2)}

\* a team's composite ratings
SampleKp(rank) ==
    [AdjOE |-> 120000 - 1000 * rank, AdjDE |-> 95000 + 1000 * rank,
     AdjEM |-> 25000 - 2000 * rank, AdjTempo |-> 68000, RankAdjEM |-> rank,
     RankAdjOE |-> rank, RankAdjDE |-> rank]

\* v2 map_kenpom_to_ids: no file, every team mapped, one team unmapped
KenpomByTeam ==
    {<< >>,
     (1101 :> SampleKp(3)) @@ (1102 :> SampleKp(40)) @@ (1103 :> SampleKp(90)),
     (1101 :> SampleKp(3)) @@ (1102 :> SampleKp(40))}

(***************************************************************************)
(* v2 pipeline: main's model fits and generate_2025_predictions            *)
(***************************************************************************)
\* DataFrame[cols] of a one-row frame made of a feature dictionary raises
\* KeyError unless every column asked for is in the frame
HasColumns(features, cols) ==
    \A i \in 1..Len(cols) : \E j \in 1..Len(features) : features[j][1] = cols[i]

\* DataFrame[cols]: the values under the columns asked for, in their order
SelectColumns(features, cols) ==
    [i \in 1..Len(cols) |-> <<cols[i], Item(features, cols[i])>>]

\* one call of a model's fit: the rows whose columns are X, the labels y, and
\* the evaluation sets handed to the call
FitCall(model, cols, rows, y, evals) ==
    [model |-> model, columns |-> cols, rows |-> rows, y |-> y, evals |-> evals]

\* xgb_model.fit(X_train, y_class); lgb_model.fit(X_train, y_class);
\* margin_model.fit(X_train, y_margin)
V2TrainModels ==
    /\ variant = "v2"
    /\ pc = "built"
    /\ LET y_class == [i \in 1..Len(train_df) |-> train_df[i].target]
           y_margin == [i \in 1..Len(train_df) |-> train_df[i].margin]
       IN  fits' = <<FitCall("xgb_model", feature_cols, train_df, y_class, << >>),
                     FitCall("lgb_model", feature_cols, train_df, y_class, << >>),
                     FitCall("margin_model", feature_cols, train_df, y_margin, << >>)>>
    /\ pc' = "trained"
    /\ UNCHANGED <<fetchVars, variant, regular, eloVars, inputVars, train_df, feature_cols,
                   seedVars, archVars, step2Vars, statsVars, kenpom, td, arch_matrix, test_df, predictions>>

\* what the three fitted models may answer for a row: predict_proba's
\* (xgb_prob, lgb_prob) in ten-millionths and pred_margin in hundredths of a
\* point; nothing in the pipeline keeps an answer away from 0 or 1
ModelOutputs ==
    {[xgb_prob |-> 9999996, lgb_prob |-> 9999990, pred_margin |-> 2150],
     [xgb_prob |-> 4800000, lgb_prob |-> 5300000, pred_margin |-> -120],
     [xgb_prob |-> 4, lgb_prob |-> 10, pred_margin |-> -1875]}

\* round(x, 6): ten-millionths to the nearest millionth
Round6(x) == Quot(RoundTo(x, 10), 10)

\* if abs(model_prob - 0.5) < 0.05: 'tossup' ... else 'lock' (ten-millionths)
V2Confidence(model_prob) ==
    LET d == Abs(model_prob - 5000000)
    IN  IF d < 500000 THEN "tossup"
        ELSE IF d < 1200000 THEN "slight"
        ELSE IF d < 2200000 THEN "lean"
        ELSE IF d < 3500000 THEN "confident"
        ELSE "lock"

\* the upset detection of the loop body
V2UpsetFlag(t1_seed, t2_seed, model_prob) ==
    LET favored_by_seed == t1_seed < t2_seed
        model_picks_t1 == model_prob > 5000000
    IN  IF t1_seed # t2_seed
        THEN IF (favored_by_seed /\ ~model_picks_t1) \/ (~favored_by_seed /\ model_picks_t1)
             THEN "upset" ELSE "chalk"
        ELSE "tossup"

\* the feature dictionary of a pair of the loop over
\* combinations(sorted(tourney_teams), 2)
V2PredictionMatchup(t1, t2, seed_map, feat_2025, elo_ratings, kp_by_team) ==
    V2BuildMatchupFeatures(Get(feat_2025, t1, << >>), Get(feat_2025, t2, << >>),
                           Get(seed_map, t1, 8), Get(seed_map, t2, 8),
                           Get(elo_ratings, t1, Pt(V2_ELO_START)),
                           Get(elo_ratings, t2, Pt(V2_ELO_START)),
                           Get(kp_by_team, t1, Absent), Get(kp_by_team, t2, Absent))

\* the rest of the loop body, the models answering out for the row X
V2Prediction(t1, t2, seed_map, kp_by_team, matchup, cols, out) ==
    LET t1_seed == Get(seed_map, t1, 8)
        t2_seed == Get(seed_map, t2, 8)
        t1_kp == Get(kp_by_team, t1, Absent)
        t2_kp == Get(kp_by_team, t2, Absent)
        X == SelectColumns(matchup, cols)
        seed_implied == Item(matchup, "seed_implied_prob")
        model_prob == (45 * out.xgb_prob + 35 * out.lgb_prob + 20 * (seed_implied * 10000)) \div 100
    IN       [season |-> V2_PRED_SEASON,
              t1_id |-> t1,
              t2_id |-> t2,
              t1_seed |-> t1_seed,
              t2_seed |-> t2_seed,
              model_win_prob |-> Round6(model_prob),
              xgb_prob |-> Round6(out.xgb_prob),
              lgb_prob |-> Round6(out.lgb_prob),
              predicted_margin |-> out.pred_margin,
              value_score |-> Round6(model_prob - seed_implied * 10000),
              seed_implied_prob |-> seed_implied,
              confidence |-> V2Confidence(model_prob),
              upset_flag |-> V2UpsetFlag(t1_seed, t2_seed, model_prob),
              model_agrees_with_seed |->
                    IF t1_seed # t2_seed THEN (model_prob > 5000000) = (t1_seed < t2_seed)
                    ELSE TRUE,
              predicted_winner |-> IF model_prob > 5000000 THEN t1 ELSE t2,
              key_factors |-> [elo_diff |-> Item(matchup, "elo_diff"),
                               t1_pyth |-> Item(matchup, "t1_pyth"),
                               t2_pyth |-> Item(matchup, "t2_pyth"),
                               t1_net_eff |-> Item(matchup, "t1_net_eff"),
                               t2_net_eff |-> Item(matchup, "t2_net_eff")],
              kenpom |-> [t1_adjem |-> IF t1_kp # Absent THEN t1_kp.AdjEM ELSE 0,
                          t2_adjem |-> IF t2_kp # Absent THEN t2_kp.AdjEM ELSE 0,
                          t1_adjoe |-> IF t1_kp # Absent THEN t1_kp.AdjOE ELSE 0,
                          t2_adjoe |-> IF t2_kp # Absent THEN t2_kp.AdjOE ELSE 0,
                          t1_adjde |-> IF t1_kp # Absent THEN t1_kp.AdjDE ELSE 0,
                          t2_adjde |-> IF t2_kp # Absent THEN t2_kp.AdjDE ELSE 0,
                          net_diff |-> IF t1_kp # Absent /\ t2_kp # Absent
                                       THEN t1_kp.AdjEM - t2_kp.AdjEM ELSE 0],
              matchup |-> matchup,
              X |-> X]

\* combinations(sorted(teams), 2), in the order itertools gives them
RECURSIVE Combinations2(_)
Combinations2(teams) ==
    IF teams = {} THEN << >>
    ELSE LET a == Min(teams)
             RECURSIVE With(_)
             With(rest) == IF rest = {} THEN << >>
                           ELSE <<<<a, Min(rest)>>>> \o With(rest \ {Min(rest)})
         IN  With(teams \ {a}) \o Combinations2(teams \ {a})

\* generate_2025_predictions: one record for every pair; the loop stops at the
\* first row the models cannot be given
V2GeneratePredictions ==
    /\ variant = "v2"
    /\ pc = "trained"
    /\ LET seed_map == SeedMap(seeds, V2_PRED_SEASON)
           pairs == Combinations2(DOMAIN seed_map)
       IN  \E out \in [1..Len(pairs) -> ModelOutputs] :
             LET matchup == [i \in 1..Len(pairs) |->
                                V2PredictionMatchup(pairs[i][1], pairs[i][2], seed_map,
                                                    Get(season_features, V2_PRED_SEASON, << >>),
                                                    elo, kenpom_by_team)]
             IN  IF \E i \in 1..Len(pairs) : ~HasColumns(matchup[i], feature_cols)
                 THEN /\ pc' = "error"
                      /\ UNCHANGED predictions
                 ELSE /\ pc' = "predicted"
                      /\ predictions' =
                            [i \in 1..Len(pairs) |->
                                V2Prediction(pairs[i][1], pairs[i][2], seed_map, kenpom_by_team,
                                             matchup[i], feature_cols, out[i])]
    /\ UNCHANGED <<fetchVars, variant, regular, eloVars, inputVars, train_df, feature_cols,
                   seedVars, archVars, step2Vars, statsVars, kenpom, td, arch_matrix, test_df, fits>>

(***************************************************************************)
(* Unified pipeline: build_matchup_features                                *)
(* A DataFrame is its column names in order and its rows, each a function  *)
(* from column name to value.  Team statistics and composite ratings are   *)
(* thousandths, ratings hundredths of a point, win rates thousandths.      *)
(***************************************************************************)
DataFrame(cols, rows) == [columns |-> cols, rows |-> rows]

\* the elements of a sequence
Range(seq) == {seq[i] : i \in 1..Len(seq)}

\* Series.fillna(d)
FillNa(x, d) == IF x = NaN THEN d ELSE x

\* the columns of the table compute_season_stats returns, in order
UStatColumns ==
    <<"W_games", "W_score", "W_fgm", "W_fga", "W_fgm3", "W_fga3", "W_ftm", "W_fta", "W_or",
      "W_dr", "W_ast", "W_to", "W_stl", "W_blk", "W_pf", "opp_score",
      "L_games", "L_score", "L_fgm", "L_fga", "L_fgm3", "L_fga3", "L_ftm", "L_fta", "L_or",
      "L_dr", "L_ast", "L_to", "L_stl", "L_blk", "L_pf", "opp_score_L",
      "wins", "losses", "win_pct", "ppg", "opp_ppg", "point_diff", "pyth", "possessions",
      "off_eff", "def_eff", "net_eff", "efg_pct", "to_rate", "ft_rate", "oreb_pct",
      "three_rate", "ast_rate", "blk_rate", "stl_rate", "tempo">>

\* the row a left merge on (Season, TeamID) finds in a team-level table
TeamRowOf(rows, s, t) ==
    IF \E r \in rows : r.Season = s /\ r.TeamID = t
    THEN CHOOSE r \in rows : r.Season = s /\ r.TeamID = t
    ELSE Absent

\* prefix_rename: f'{prefix}_{c}' for the columns that are not keys
Prefixed(prefix, cols) == [i \in 1..Len(cols) |-> prefix \o "_" \o cols[i]]

\* the columns a left merge of prefix_rename(table, prefix) adds to a row:
\* the team's values, NaN when the table has no row of the team
Merged(prefix, cols, r) ==
    LET names == Prefixed(prefix, cols)
    IN  [n \in Range(names) |->
            IF r = Absent THEN NaN
            ELSE r[cols[CHOOSE i \in 1..Len(cols) : names[i] = n]]]

\* (mutation of UMatchupBase: the winner is always T1)
UMatchupBase_WinnerFirst(g) ==
    [Season |-> g.Season, T1_TeamID |-> g.WTeamID, T2_TeamID |-> g.LTeamID,
     PointDiff |-> g.WScore - g.LScore, T1_won |-> 1, DayNum |-> g.DayNum]

\* the row made of a tournament game (the loop over tourney.iterrows())
UMatchupBase(g) ==
    LET w == g.WTeamID
        l == g.LTeamID
        t1 == Min({w, l})
        t2 == Max({w, l})
    IN  [Season |-> g.Season, T1_TeamID |-> t1, T2_TeamID |-> t2,
         PointDiff |-> IF t1 = w THEN g.WScore - g.LScore ELSE g.LScore - g.WScore,
         T1_won |-> IF t1 = w THEN 1 ELSE 0,
         DayNum |-> g.DayNum]

infer_round(day) ==
    IF day = NaN THEN 0
    ELSE IF day <= 135 THEN 1
    ELSE IF day <= 137 THEN 2
    ELSE IF day <= 139 THEN 3
    ELSE IF day <= 141 THEN 4
    ELSE IF day <= 143 THEN 5
    ELSE 6

\* the seed columns of a row and seed_diff
USeedColumns(row, seed_table) ==
    LET k1 == <<row.Season, row.T1_TeamID>>
        k2 == <<row.Season, row.T2_TeamID>>
        s1 == Get(seed_table, k1, NaN)
        s2 == Get(seed_table, k2, NaN)
    IN  [T1_seed |-> s1, T1_region |-> IF s1 = NaN THEN "nan" ELSE "W",
         T2_seed |-> s2, T2_region |-> IF s2 = NaN THEN "nan" ELSE "X",
         seed_diff |-> FillNa(s1, 8) - FillNa(s2, 8)]

\* the rating columns of a row and elo_diff
UEloColumns(row, elo_rows) ==
    LET r1 == TeamRowOf(elo_rows, row.Season, row.T1_TeamID)
        r2 == TeamRowOf(elo_rows, row.Season, row.T2_TeamID)
        e1 == IF r1 = Absent THEN NaN ELSE r1.elo
        e2 == IF r2 = Absent THEN NaN ELSE r2.elo
    IN  [T1_elo |-> e1, T2_elo |-> e2,
         elo_diff |-> FillNa(e1, Pt(1000)) - FillNa(e2, Pt(1000))]

\* kp_cols = [c for c in kenpom.columns if c not in ['Season', 'TeamID', 'TeamName']]
UKpCols(kp) == SelectSeq(kp.columns, LAMBDA c : c \notin {"Season", "TeamID", "TeamName"})

UKpStats == <<"KP_ORtg", "KP_DRtg", "KP_NetRtg", "KP_AdjTempo">>

\* the names of the composite-rating columns build_matchup_features derives
UKpDerivedColumns(kp) ==
    LET has(c) == c \in Range(UKpCols(kp))
    IN  [i \in 1..Len(SelectSeq(UKpStats, has)) |-> SelectSeq(UKpStats, has)[i] \o "_diff"]
        \o (IF has("KP_ORtg") /\ has("KP_DRtg")
            THEN <<"T1_off_vs_T2_def", "T2_off_vs_T1_def", "matchup_edge">> ELSE << >>)
        \o (IF has("KP_AdjTempo") THEN <<"tempo_mismatch">> ELSE << >>)

\* the composite-rating columns of a row (the merge and the derived columns)
UKpColumns(row, kp) ==
    LET cols == UKpCols(kp)
        m == Merged("T1", cols, TeamRowOf(kp.rows, row.Season, row.T1_TeamID))
                @@ Merged("T2", cols, TeamRowOf(kp.rows, row.Season, row.T2_TeamID))
        derived == UKpDerivedColumns(kp)
        off1 == FillNa(m["T1_KP_ORtg"], 100000) - FillNa(m["T2_KP_DRtg"], 100000)
        off2 == FillNa(m["T2_KP_ORtg"], 100000) - FillNa(m["T1_KP_DRtg"], 100000)
    IN  m @@ [n \in Range(derived) |->
                CASE n = "T1_off_vs_T2_def" -> off1
                  [] n = "T2_off_vs_T1_def" -> off2
                  [] n = "matchup_edge" -> off1 - off2
                  [] n = "tempo_mismatch" ->
                        Abs(FillNa(m["T1_KP_AdjTempo"], 67000) - FillNa(m["T2_KP_AdjTempo"], 67000))
                  [] OTHER ->
                        LET stat == UKpStats[CHOOSE i \in 1..Len(UKpStats) :
                                                UKpStats[i] \o "_diff" = n]
                        IN  FillNa(m["T1_" \o stat], 0) - FillNa(m["T2_" \o stat], 0)]

\* groupby('Season')[stat].rank(ascending=ascending, method='min') of a row
URank(rows, r, stat, ascending) ==
    IF r[stat] = NaN THEN NaN
    ELSE 1 + Cardinality({q \in rows :
                /\ q.Season = r.Season
                /\ q[stat] # NaN
                /\ IF ascending THEN q[stat] < r[stat] ELSE q[stat] > r[stat]})

\* archetype_base with its Archetype column: from the composite ranks when the
\* table has them, else from the ranks of the season statistics
UArchetypeBase(stats, kp) ==
    LET rank_rows ==
            IF kp # Absent /\ "RankAdjOE" \in Range(kp.columns)
            THEN {[Season |-> r.Season, TeamID |-> r.TeamID,
                   RankAdjOE |-> r.RankAdjOE,
                   RankAdjDE |-> IF "RankAdjDE" \in Range(kp.columns) THEN r.RankAdjDE ELSE 150,
                   RankAdjTempo |-> IF "RankAdjTempo" \in Range(kp.columns)
                                    THEN r.RankAdjTempo ELSE 150] : r \in kp.rows}
            ELSE {[Season |-> r.Season, TeamID |-> r.TeamID,
                   RankAdjOE |-> URank(stats, r, "off_eff", FALSE),
                   RankAdjDE |-> URank(stats, r, "def_eff", TRUE),
                   RankAdjTempo |-> URank(stats, r, "tempo", FALSE)] : r \in stats}
    IN  {r @@ [Archetype |-> assign_archetype(r)] : r \in rank_rows}

\* the archetype columns of a row, 'The Unknown' for a team without one
UArchetypeColumns(row, archetype_base) ==
    LET a1 == TeamRowOf(archetype_base, row.Season, row.T1_TeamID)
        a2 == TeamRowOf(archetype_base, row.Season, row.T2_TeamID)
    IN  [T1_Archetype |-> IF a1 = Absent THEN "The Unknown" ELSE a1.Archetype,
         T2_Archetype |-> IF a2 = Absent THEN "The Unknown" ELSE a2.Archetype]

\* the entry with T1's wins counted in both orientations
UArchMatrixEntry_T1Wins(rows, x, y) ==
    LET fwd == {i \in 1..Len(rows) : rows[i].T1_Archetype = x /\ rows[i].T2_Archetype = y}
        rev == {i \in 1..Len(rows) : rows[i].T2_Archetype = x /\ rows[i].T1_Archetype = y}
        total == Cardinality(fwd) + Cardinality(rev)
        wins == Cardinality({i \in fwd \cup rev : rows[i].T1_won = 1})
    IN  IF total = 0 THEN Absent
        ELSE [wins |-> wins, total |-> total, win_rate |-> (wins * 1000) \div total]

\* ArchetypeEngine.build_matchup_matrix: the entry of the pair (x, y), Absent
\* when no row touched it
UArchMatrixEntry(rows, x, y) ==
    LET fwd == {i \in 1..Len(rows) : rows[i].T1_Archetype = x /\ rows[i].T2_Archetype = y}
        rev == {i \in 1..Len(rows) : rows[i].T2_Archetype = x /\ rows[i].T1_Archetype = y}
        total == Cardinality(fwd) + Cardinality(rev)
        wins == Cardinality({i \in fwd : rows[i].T1_won = 1})
                    + Cardinality({i \in rev : rows[i].T1_won = 0})
    IN  IF total = 0 THEN Absent
        ELSE [wins |-> wins, total |-> total, win_rate |-> (wins * 1000) \div total]

\* the matrix, keyed by the pair of archetypes (the code joins them with '__vs__')
build_matchup_matrix(rows) ==
    LET pairs == {<<rows[i].T1_Archetype, rows[i].T2_Archetype>> : i \in 1..Len(rows)}
                    \cup {<<rows[i].T2_Archetype, rows[i].T1_Archetype>> : i \in 1..Len(rows)}
    IN  [k \in pairs |-> UArchMatrixEntry(rows, k[1], k[2])]

\* every name assign_archetype can return, in the order np.unique sorts them
ArchetypeOrder ==
    <<"The All-Arounder", "The Balanced Threat", "The Brick House", "The Cinderella Hopeful",
      "The Crusher", "The Defender", "The Defense-First", "The Defensive Minded",
      "The Fortress", "The Fundamentals", "The Glass Cannon", "The Grinder", "The Gunslinger",
      "The Half-Court Hero", "The Juggernaut", "The Lockdown", "The Mid-Pack",
      "The Offense-Only", "The Offensive Minded", "The Plodder", "The Powerhouse",
      "The Pressure Cooker", "The Run-and-Gun", "The Scorer", "The Scrappy Squad",
      "The Sharpshooter", "The Sniper", "The Suffocator", "The Underdog", "The Unknown",
      "The Wall">>

\* LabelEncoder fitted on the names present: a name's index among them
ULabelEncode(name, present) ==
    LET at(n) == CHOOSE i \in 1..Len(ArchetypeOrder) : ArchetypeOrder[i] = n
    IN  Cardinality({n \in present : at(n) < at(name)})

\* the statistics build_matchup_features takes the T1 - T2 difference of
UDiffStats ==
    <<"off_eff", "def_eff", "net_eff", "efg_pct", "to_rate", "ft_rate", "oreb_pct",
      "three_rate", "pyth", "win_pct", "point_diff", "tempo">>

\* a row up to the archetype merge
UMatchupRowA(g, stats, elo_rows, seed_table, kp, archetype_base) ==
    LET base == UMatchupBase(g)
        row == base @@ [Round |-> infer_round(base.DayNum)]
    IN  row @@ USeedColumns(row, seed_table)
            @@ Merged("T1", UStatColumns, TeamRowOf(stats, row.Season, row.T1_TeamID))
            @@ Merged("T2", UStatColumns, TeamRowOf(stats, row.Season, row.T2_TeamID))
            @@ UEloColumns(row, elo_rows)
            @@ (IF kp # Absent THEN UKpColumns(row, kp) ELSE << >>)
            @@ UArchetypeColumns(row, archetype_base)

\* the columns added after the archetype merge; get_seed_prob is reached only
\* with both seeds present
UMatchupRowB(row, matrix, present) ==
    LET entry == Get(matrix, <<row.T1_Archetype, row.T2_Archetype>>,
                     [win_rate |-> 500, total |-> 0])
    IN  row @@ [arch_matchup_wr |-> entry.win_rate,
                arch_matchup_n |-> entry.total,
                arch_matchup_edge |-> entry.win_rate - 500,
                T1_arch_encoded |-> ULabelEncode(row.T1_Archetype, present),
                T2_arch_encoded |-> ULabelEncode(row.T2_Archetype, present),
                seed_implied_prob |-> get_seed_prob(row.T1_seed, row.T2_seed)]
            @@ [n \in {UDiffStats[i] \o "_diff" : i \in 1..Len(UDiffStats)} |->
                    LET stat == UDiffStats[CHOOSE i \in 1..Len(UDiffStats) :
                                                UDiffStats[i] \o "_diff" = n]
                    IN  NSub(FillNa(row["T1_" \o stat], 0), FillNa(row["T2_" \o stat], 0))]

\* td.columns, in the order the columns are added
UMatchupColumns(kp) ==
    <<"Season", "T1_TeamID", "T2_TeamID", "PointDiff", "T1_won", "DayNum", "Round",
      "T1_seed", "T1_region", "T2_seed", "T2_region", "seed_diff">>
    \o Prefixed("T1", UStatColumns) \o Prefixed("T2", UStatColumns)
    \o <<"T1_elo", "T2_elo", "elo_diff">>
    \o (IF kp # Absent
        THEN Prefixed("T1", UKpCols(kp)) \o Prefixed("T2", UKpCols(kp)) \o UKpDerivedColumns(kp)
        ELSE << >>)
    \o <<"T1_Archetype", "T2_Archetype", "arch_matchup_wr", "arch_matchup_n",
         "arch_matchup_edge", "T1_arch_encoded", "T2_arch_encoded", "seed_implied_prob">>
    \o [i \in 1..Len(UDiffStats) |-> UDiffStats[i] \o "_diff"]

\* int(row.get('T1_seed', 8)) raises ValueError on the NaN of an unseeded team
USeedProbRaises(tourney, seed_table) ==
    \E g \in tourney :
        USeedColumns(UMatchupBase(g), seed_table).T1_seed = NaN
            \/ USeedColumns(UMatchupBase(g), seed_table).T2_seed = NaN

\* the whole table
UMatchupTable(tourney, stats, elo_rows, seed_table, kp) ==
    LET archetype_base == UArchetypeBase(stats, kp)
        games == SetToSeq(tourney)
        a == [i \in 1..Len(games) |->
                UMatchupRowA(games[i], stats, elo_rows, seed_table, kp, archetype_base)]
        train == SelectSeq(a, LAMBDA r : r.Season < BACKTEST_SEASON)
        matrix == build_matchup_matrix(train)
        present == {a[i].T1_Archetype : i \in 1..Len(a)} \cup {a[i].T2_Archetype : i \in 1..Len(a)}
    IN  DataFrame(UMatchupColumns(kp),
                  [i \in 1..Len(a) |-> UMatchupRowB(a[i], matrix, present)])

\* the matrix build_matchup_features returns with the table: built from the
\* rows of td[train_mask]
UMatchupMatrix(tourney, stats, elo_rows, seed_table, kp) ==
    LET archetype_base == UArchetypeBase(stats, kp)
        games == SetToSeq(tourney)
        a == [i \in 1..Len(games) |->
                UMatchupRowA(games[i], stats, elo_rows, seed_table, kp, archetype_base)]
        train == SelectSeq(a, LAMBDA r : r.Season < BACKTEST_SEASON)
    IN  build_matchup_matrix(train)

\* tournament rows of the unified pipeline's table
UTourneyRows ==
    {[Season |-> s, DayNum |-> 136, WTeamID |-> p[1], LTeamID |-> p[2], WScore |-> 70,
      LScore |-> 60] :
        s \in {2023, 2024, 2025}, p \in {<<1101, 1102>>, <<1102, 1101>>, <<1103, 1101>>}}

\* load_kenpom: no file, a table with the rank columns, a table without them
KenpomColumns ==
    <<"Season", "TeamID", "TeamName", "KP_ORtg", "KP_DRtg", "KP_NetRtg", "KP_AdjTempo">>

KenpomRow(s, t, rank) ==
    [Season |-> s, TeamID |-> t, TeamName |-> "Team", KP_ORtg |-> 120000 - 1000 * rank,
     KP_DRtg |-> 95000 + 1000 * rank, KP_NetRtg |-> 25000 - 2000 * rank,
     KP_AdjTempo |-> 68000 + 100 * rank]

KenpomTables ==
    {Absent,
     DataFrame(KenpomColumns \o <<"RankAdjOE", "RankAdjDE", "RankAdjTempo">>,
               {KenpomRow(s, t, IF t = 1101 THEN 3 ELSE 40)
                    @@ [RankAdjOE |-> IF t = 1101 THEN 3 ELSE 40,
                        RankAdjDE |-> IF t = 1101 THEN 30 ELSE 12,
                        RankAdjTempo |-> IF t = 1101 THEN 90 ELSE 260] :
                    s \in {2023, 2024, 2025}, t \in {1101, 1102}}),
     DataFrame(KenpomColumns,
               {KenpomRow(s, t, IF t = 1101 THEN 3 ELSE 40) :
                    s \in {2024, 2025}, t \in {1101, 1102}})}

\* main: td, arch_matrix, arch_encoder, archetype_base = build_matchup_features(...)
\* An empty tournament table or rating table has no Season column to merge on.
UBuildMatchupFeatures ==
    /\ variant = "unified"
    /\ pc = "done"
    /\ team_stats # {}
    /\ \E t \in TablesUpTo(UTourneyRows, MaxMatchups) :
        /\ trn' = t
        /\ IF t = {} \/ season_elos = {} \/ USeedProbRaises(t, seeds)
           THEN /\ pc' = "error"
                /\ UNCHANGED <<td, arch_matrix>>
           ELSE /\ pc' = "features"
                /\ td' = UMatchupTable(t, team_stats, season_elos, seeds, kenpom)
                /\ arch_matrix' = UMatchupMatrix(t, team_stats, season_elos, seeds, kenpom)
    /\ UNCHANGED <<fetchVars, variant, regular, eloVars, seeds, season_features, kenpom_by_team,
                   train_df, feature_cols, seedVars, archVars, step2Vars, statsVars,
                   kenpom, test_df, fits, predictions>>

(***************************************************************************)
(* Unified pipeline: train_model                                           *)
(***************************************************************************)
UExclude ==
    {"Season", "T1_TeamID", "T2_TeamID", "PointDiff", "T1_won", "T1_Archetype",
     "T2_Archetype", "T1_region", "T2_region", "T1_name", "T2_name", "DayNum"}

\* the columns of object dtype (strings)
UObjectColumns == {"T1_region", "T2_region", "T1_Archetype", "T2_Archetype"}

\* features = [c for c in td.columns if c not in exclude and td[c].dtype in [...]]
UFeatures(frame) ==
    SelectSeq(frame.columns, LAMBDA c : c \notin UExclude /\ c \notin UObjectColumns)

\* train, test = the rows before the target season and the rows of it
USplitTrain(rows, backtest_season) == SelectSeq(rows, LAMBDA r : r.Season < backtest_season)

USplitTest(rows, backtest_season) == SelectSeq(rows, LAMBDA r : r.Season = backtest_season)

\* the fallback of an empty test: the last season of train becomes the test
UFallbackTest(train) ==
    IF train = << >> THEN << >>
    ELSE LET last_season == Max({train[i].Season : i \in 1..Len(train)})
         IN  SelectSeq(train, LAMBDA r : r.Season = last_season)

\* (mutation of UFallbackTrain: the last season stays among the training rows)
UFallbackTrain_Whole(train) == train

UFallbackTrain(train) ==
    IF train = << >> THEN << >>
    ELSE LET last_season == Max({train[i].Season : i \in 1..Len(train)})
         IN  SelectSeq(train, LAMBDA r : r.Season < last_season)

\* a column of a frame's rows
ColumnOf(rows, c) == [i \in 1..Len(rows) |-> rows[i][c]]

\* the fit calls of train_model, in order; has_lgb is HAS_LGB
UFitCalls(features, train, test, has_lgb) ==
    <<FitCall("xgb_model", features, train, ColumnOf(train, "PointDiff"),
              <<[rows |-> test, y |-> ColumnOf(test, "PointDiff")]>>),
      FitCall(IF has_lgb THEN "lgb_model" ELSE "rf_model", features, train,
              ColumnOf(train, "T1_won"), << >>),
      FitCall("tfidf", features, train, << >>, << >>),
      FitCall("leaf_lr", features, train, ColumnOf(train, "T1_won"), << >>),
      FitCall("meta_lr", features, train, ColumnOf(train, "T1_won"), << >>)>>

\* what the stacked ensemble may answer for a held-out row: predict_proba's
\* final_prob in millionths (a float of [0, 1], which nothing in the pipeline
\* keeps away from the ends), xgb_margin_pred in hundredths of a point
UModelOutputs ==
    {[final_prob |-> 1000000, xgb_margin_pred |-> 1210],
     [final_prob |-> 500000, xgb_margin_pred |-> 0],
     [final_prob |-> 123456, xgb_margin_pred |-> -845]}

\* the fit calls completed when a fit raises: nothing to train on stops the
\* run at the first or second call; labels of one class stop it at a classifier
UFitsBeforeRaise(train) ==
    IF train = << >> THEN {0, 1} ELSE {1, 3}

UTrainModel ==
    /\ variant = "unified"
    /\ pc = "features"
    /\ LET train0 == USplitTrain(td.rows, BACKTEST_SEASON)
           test0 == USplitTest(td.rows, BACKTEST_SEASON)
           train == IF Len(test0) = 0 THEN UFallbackTrain(train0) ELSE train0
           test == IF Len(test0) = 0 THEN UFallbackTest(train0) ELSE test0
           features == UFeatures(td)
       IN  /\ train_df' = train
           /\ feature_cols' = features
           /\ \E has_lgb \in BOOLEAN :
                IF Cardinality(Range(ColumnOf(train, "T1_won"))) < 2
                THEN /\ \E n \in UFitsBeforeRaise(train) :
                            fits' = SubSeq(UFitCalls(features, train, test, has_lgb), 1, n)
                     /\ test_df' = test
                     /\ pc' = "error"
                ELSE /\ fits' = UFitCalls(features, train, test, has_lgb)
                     /\ \E out \in [1..Len(test) -> UModelOutputs] :
                            test_df' = [i \in 1..Len(test) |->
                                test[i] @@ [model_prob |-> out[i].final_prob,
                                            predicted_margin |-> out[i].xgb_margin_pred,
                                            value_score |-> out[i].final_prob
                                                - 1000 * test[i].seed_implied_prob]]
                     /\ pc' = "trained"
    /\ UNCHANGED <<fetchVars, variant, regular, eloVars, inputVars, seedVars, archVars, step2Vars,
                   statsVars, kenpom, td, arch_matrix, predictions>>

(***************************************************************************)
(* Unified pipeline: export_step1_json                                     *)
(***************************************************************************)
\* pred_entry of a row of result['test_data'] (the names and the response
\* texts left out)
UPredEntry(row) ==
    [season |-> row.Season,
     t1_id |-> row.T1_TeamID,
     t2_id |-> row.T2_TeamID,
     t1_archetype |-> row.T1_Archetype,
     t2_archetype |-> row.T2_Archetype,
     predicted_margin |-> row.predicted_margin,
     value_score |-> row.value_score,
     seed_implied_prob |-> row.seed_implied_prob,
     actual_margin |-> row.PointDiff,
     actual_winner |-> IF row.PointDiff > 0 THEN "t1" ELSE "t2",
     archetype_matchup |-> [t1_arch |-> row.T1_Archetype, t2_arch |-> row.T2_Archetype,
                            historical_wr |-> row.arch_matchup_wr,
                            historical_n |-> row.arch_matchup_n,
                            arch_edge |-> row.arch_matchup_edge],
     key_factors |-> [elo_diff |-> row.elo_diff, t1_elo |-> row.T1_elo, t2_elo |-> row.T2_elo,
                      t1_pyth |-> row.T1_pyth, t2_pyth |-> row.T2_pyth,
                      t1_off_eff |-> row.T1_off_eff, t2_off_eff |-> row.T2_off_eff,
                      t1_def_eff |-> row.T1_def_eff, t2_def_eff |-> row.T2_def_eff,
                      t1_net_eff |-> row.T1_net_eff, t2_net_eff |-> row.T2_net_eff,
                      t1_efg |-> row.T1_efg_pct, t2_efg |-> row.T2_efg_pct,
                      t1_to_rate |-> row.T1_to_rate, t2_to_rate |-> row.T2_to_rate],
     kenpom |-> [t1_ortg |-> Get(row, "T1_KP_ORtg", 0), t2_ortg |-> Get(row, "T2_KP_ORtg", 0),
                 t1_drtg |-> Get(row, "T1_KP_DRtg", 0), t2_drtg |-> Get(row, "T2_KP_DRtg", 0),
                 t1_net |-> Get(row, "T1_KP_NetRtg", 0), t2_net |-> Get(row, "T2_KP_NetRtg", 0),
                 t1_tempo |-> Get(row, "T1_KP_AdjTempo", 0),
                 t2_tempo |-> Get(row, "T2_KP_AdjTempo", 0),
                 matchup_edge |-> Get(row, "matchup_edge", 0),
                 tempo_mismatch |-> Get(row, "tempo_mismatch", 0)]]
        @@ Step1Entry(row.model_prob, row.T1_seed, row.T2_seed)

\* export_step1_json: chatbot_data['predictions']
UExportStep1 ==
    /\ variant = "unified"
    /\ pc = "trained"
    /\ predictions' = [i \in 1..Len(test_df) |-> UPredEntry(test_df[i])]
    /\ pc' = "predicted"
    /\ UNCHANGED <<fetchVars, variant, regular, eloVars, inputVars, train_df, feature_cols, seedVars,
                   archVars, step2Vars, statsVars, kenpom, td, arch_matrix, test_df, fits>>

(***************************************************************************)
(* Step 1 of both pipelines, from the loaded tables to the predictions     *)
(***************************************************************************)
InitStep1 ==
    /\ variant \in {"unified", "v2"}
    /\ regular \in (IF variant = "unified" THEN RegularTables \ {{}} ELSE RegularTables)
    /\ elo = << >>
    /\ season_elos = {}
    /\ pc = "boundary"
    /\ season = IF variant = "v2" THEN V2_FIRST_SEASON ELSE 0
    /\ pending = {}
    /\ applied = << >>
    /\ trn = {}
    /\ seeds \in SeedTables
    /\ season_features =
            IF variant = "v2"
            THEN [s \in V2_FIRST_SEASON..V2_PRED_SEASON |-> build_season_features(regular, s)]
            ELSE << >>
    /\ kenpom_by_team \in (IF variant = "v2" THEN KenpomByTeam ELSE {<< >>})
    /\ kenpom \in (IF variant = "unified" THEN KenpomTables ELSE {Absent})
    /\ train_df = << >>
    /\ feature_cols = << >>
    /\ td = Absent
    /\ arch_matrix = << >>
    /\ test_df = << >>
    /\ fits = << >>
    /\ predictions = << >>
    /\ IdleSeed
    /\ IdleArch
    /\ IdleFetch
    /\ IdleStep2
    /\ IdleStats

NextStep1 ==
    \/ UEloSeasonStart
    \/ UEloGame
    \/ UEloSnapshot
    \/ UEloFinal
    \/ UComputeSeasonStats
    \/ UBuildMatchupFeatures
    \/ UTrainModel
    \/ UExportStep1
    \/ V2EloSeasonStart
    \/ V2EloGame
    \/ V2EloReturn
    \/ V2BuildTrainingData
    \/ V2TrainModels
    \/ V2GeneratePredictions

SpecStep1 == InitStep1 /\ [][NextStep1]_vars

(***************************************************************************)
(* Properties of step 1                                                    *)
(***************************************************************************)
\* the rows of a fit call and of the evaluation sets handed to it
FitInputRows(f) ==
    Range(f.rows) \cup UNION {Range(f.evals[k].rows) : k \in 1..Len(f.evals)}

\* C1: in the unified train_model no row of the target season is among the
\* inputs of any fit call: the training rows and the rows of every evaluation
\* or early-stopping set all have a season strictly before the target season.
C1_NoTargetSeasonRowInAnyFit ==
    variant = "unified" =>
        \A k \in 1..Len(fits) : \A r \in FitInputRows(fits[k]) : r.Season < BACKTEST_SEASON

\* the lower-id team won the game
LowerIdWon(g) == g.WTeamID < g.LTeamID

\* the row (season, t1, t2, label, point differential) is the game seen from
\* the lower-id team
RowOfGame(g, s, t1, t2, won, diff) ==
    /\ s = g.Season
    /\ {t1, t2} = {g.WTeamID, g.LTeamID}
    /\ (won = 1) = LowerIdWon(g)
    /\ Abs(diff) = g.WScore - g.LScore

\* C5: every matchup row built for training and every prediction record has
\* T1's id strictly below T2's; the win label is 1 exactly when the lower-id
\* team won the game, and the point differential is positive exactly when the
\* label is 1 (in both pipelines).
C5_T1LowerAndOriented ==
    /\ (variant = "unified" /\ td # Absent) =>
        \A i \in 1..Len(td.rows) :
            LET r == td.rows[i]
            IN  /\ r.T1_TeamID < r.T2_TeamID
                /\ r.T1_won \in {0, 1}
                /\ (r.PointDiff > 0) = (r.T1_won = 1)
                /\ \E g \in trn : RowOfGame(g, r.Season, r.T1_TeamID, r.T2_TeamID,
                                            r.T1_won, r.PointDiff)
    /\ (variant = "v2" /\ pc \in {"built", "trained", "predicted"}) =>
        \A i \in 1..Len(train_df) :
            LET r == train_df[i]
            IN  /\ r.t1_id < r.t2_id
                /\ r.target \in {0, 1}
                /\ (r.margin > 0) = (r.target = 1)
                /\ \E g \in trn : RowOfGame(g, r.season, r.t1_id, r.t2_id, r.target, r.margin)
    /\ \A i \in 1..Len(predictions) :
        /\ predictions[i].t1_id < predictions[i].t2_id
        /\ variant = "unified" =>
            /\ (predictions[i].actual_winner = "t1") = (test_df[i].T1_won = 1)
            /\ (predictions[i].actual_margin > 0) = (test_df[i].T1_won = 1)

C5_Witness ==
    /\ variant = "unified"
    /\ pc = "predicted"
    /\ \E i, j \in 1..Len(td.rows) : td.rows[i].T1_won = 1 /\ td.rows[j].T1_won = 0
    /\ \E g \in trn : ~LowerIdWon(g)
    /\ predictions # << >>

\* C9: the named feature columns given to the models are the same, in the same
\* order, for every training row and every prediction row, with or without
\* composite ratings for the row's teams: no row lacks a feature, adds one or
\* has one at another position, and no prediction fails for a missing column.
C9_SameFeatureColumns ==
    /\ (variant = "v2" /\ pc \in {"built", "trained", "predicted"}) =>
        /\ feature_cols = Columns(V2BaseFeatures(<< >>, << >>, 8, 8, 0, 0) \o V2KpAbsent)
        /\ \A k \in 1..Len(train_df) : Columns(train_df[k].features) = feature_cols
        /\ \A k \in 1..Len(fits) : fits[k].columns = feature_cols
        /\ \A i \in 1..Len(predictions) :
            /\ Columns(predictions[i].matchup) = feature_cols
            /\ Columns(predictions[i].X) = feature_cols
    /\ (variant = "v2" /\ pc = "error") => fits = << >>
    /\ (variant = "unified" /\ td # Absent) =>
        /\ \A i \in 1..Len(td.rows) : DOMAIN td.rows[i] = Range(td.columns)
        /\ \A i, j \in 1..Len(td.columns) : td.columns[i] = td.columns[j] => i = j
        /\ \A k \in 1..Len(fits) :
            /\ fits[k].columns = UFeatures(td)
            /\ fits[k].columns = feature_cols
            /\ \A r \in FitInputRows(fits[k]) : Range(feature_cols) \subseteq DOMAIN r
        /\ \A i \in 1..Len(test_df) : Range(UFeatures(td)) \subseteq DOMAIN test_df[i]

\* predictions for a pair with composite ratings and for a pair without
C9_Witness ==
    /\ variant = "v2"
    /\ pc = "predicted"
    /\ train_df # << >>
    /\ \E i, j \in 1..Len(predictions) :
        /\ predictions[i].t1_id \in DOMAIN kenpom_by_team
        /\ predictions[i].t2_id \in DOMAIN kenpom_by_team
        /\ Item(predictions[i].matchup, "kp_rank_diff") # 0
        /\ predictions[j].t2_id \notin DOMAIN kenpom_by_team

\* the probabilities of a prediction record, each as a fraction of its unit
RecordProbs(p) ==
    {<<p.model_win_prob, 1000000>>, <<p.seed_implied_prob, 1000>>}
        \cup (IF variant = "v2"
              THEN {<<p.xgb_prob, 1000000>>, <<p.lgb_prob, 1000000>>}
              ELSE {})

\* C14: every probability of every prediction record step 1 produces lies
\* strictly between 0 and 1.
C14_NoEmittedProbIsZeroOrOne ==
    pc = "predicted" =>
        \A i \in 1..Len(predictions) :
            \A q \in RecordProbs(predictions[i]) : q[1] > 0 /\ q[1] < q[2]

\* the teams seeded in the target season
SeededTeams == {k[2] : k \in {x \in DOMAIN seeds : x[1] = BACKTEST_SEASON}}

\* C15: the prediction output has exactly one record for every unordered pair
\* of teams seeded in the target season, n(n-1)/2 records for n seeded teams.
C15_OneRecordPerSeededPair ==
    pc = "predicted" =>
        /\ Len(predictions) = (Cardinality(SeededTeams) * (Cardinality(SeededTeams) - 1)) \div 2
        /\ \A a, b \in SeededTeams :
              a < b =>
                Cardinality({i \in 1..Len(predictions) :
                    predictions[i].t1_id = a /\ predictions[i].t2_id = b}) = 1

\* C17: a matchup table is built from every non-empty tournament table: once
\* build_matchup_features (unified) or build_training_data (v2) has been
\* given games to make rows of, it has returned the rows, whichever seeds,
\* statistics, ratings or composite ratings of their teams are missing.
C17_FeaturesBuiltDespiteMissingInputs ==
    /\ (variant = "unified" /\ trn # {} /\ season_elos # {}) => td # Absent
    /\ (variant = "v2" /\ \E g \in trn : g.Season < V2_PRED_SEASON) => train_df # << >>

\* C28: an upset alert is reported only for a pair of different seeds whose
\* worse (numerically higher) seed is given a win probability above 0.5; for
\* equal seeds none is reported, whatever the probability. (The unified
\* get_upset_flag reports 'UPSET ALERT', the v2 loop 'upset' on the unrounded
\* ensemble value, so its rounded probability may be exactly 0.5.)
C28_UpsetAlertOnlyForWorseSeed ==
    \A i \in 1..Len(predictions) :
        LET p == predictions[i]
        IN  /\ (variant = "unified" /\ p.upset_flag = "UPSET ALERT") =>
                    /\ p.t1_seed # p.t2_seed
                    /\ IF p.t1_seed > p.t2_seed THEN p.model_win_prob > 500000
                       ELSE p.model_win_prob < 500000
            /\ (variant = "v2" /\ p.upset_flag = "upset") =>
                    /\ p.t1_seed # p.t2_seed
                    /\ IF p.t1_seed > p.t2_seed THEN p.model_win_prob >= 500000
                       ELSE p.model_win_prob <= 500000

\* the game a row of the matchup table was made of
GameOf(r) == <<r.Season, r.T1_TeamID, r.T2_TeamID, r.DayNum>>

\* the unified train_model has split the table (it may have raised in a fit)
USplitDone == variant = "unified" /\ pc \in {"trained", "predicted"}

\* C30: in train_model, in the normal case and in the fallback for a target
\* season without rows, no game is both a training row and an evaluation row,
\* and every training row's season is before every evaluation row's season;
\* the same holds of the rows and the evaluation set of every fit call.
C30_TrainBeforeEvaluation ==
    /\ (variant = "unified" /\ pc \in {"trained", "predicted", "error"}) =>
          \A i \in 1..Len(train_df) : \A j \in 1..Len(test_df) :
              /\ GameOf(train_df[i]) # GameOf(test_df[j])
              /\ train_df[i].Season < test_df[j].Season
    /\ variant = "unified" =>
          \A n \in 1..Len(fits) : \A k \in 1..Len(fits[n].evals) :
              \A a \in Range(fits[n].rows) : \A b \in Range(fits[n].evals[k].rows) :
                  GameOf(a) # GameOf(b) /\ a.Season < b.Season

\* the fallback was taken: the target season has no row, the evaluation rows
\* are those of the last season and earlier seasons are left to train on
C30_Witness ==
    /\ USplitDone
    /\ \A g \in trn : g.Season < BACKTEST_SEASON
    /\ test_df # << >>
    /\ train_df # << >>
    /\ \A j \in 1..Len(test_df) : test_df[j].Season = 2024
    /\ \E n \in 1..Len(fits) : fits[n].evals # << >>

\* the rows of the matchup table the matrix is built of: td[train_mask]
TrainMaskRows ==
    IF td = Absent THEN {}
    ELSE {i \in 1..Len(td.rows) : td.rows[i].Season < BACKTEST_SEASON}

\* C22: in the matrix build_matchup_matrix returns, every pair of distinct
\* archetypes that occurs in a row has both orientations, these have the same
\* total and their wins add up to it; every entry has 0 <= wins <= total and
\* win_rate = wins / total.
C22_MatrixOrientationsAgree ==
    /\ \A i \in TrainMaskRows :
          LET a == td.rows[i].T1_Archetype
              b == td.rows[i].T2_Archetype
          IN  a # b =>
                /\ <<a, b>> \in DOMAIN arch_matrix
                /\ <<b, a>> \in DOMAIN arch_matrix
    /\ \A k \in DOMAIN arch_matrix :
          /\ k[1] # k[2] =>
                /\ <<k[2], k[1]>> \in DOMAIN arch_matrix
                /\ arch_matrix[<<k[2], k[1]>>].total = arch_matrix[k].total
                /\ arch_matrix[k].wins + arch_matrix[<<k[2], k[1]>>].wins = arch_matrix[k].total
          /\ arch_matrix[k].wins >= 0
          /\ arch_matrix[k].wins <= arch_matrix[k].total
          /\ arch_matrix[k].total > 0
          /\ arch_matrix[k].win_rate = (arch_matrix[k].wins * 1000) \div arch_matrix[k].total

\* a matrix with a pair of distinct archetypes that met twice, each side
\* winning once, and a pair that met once
C22_Witness ==
    /\ \E k \in DOMAIN arch_matrix :
          k[1] # k[2] /\ arch_matrix[k].total = 2 /\ arch_matrix[k].wins = 1
    /\ \E k \in DOMAIN arch_matrix :
          k[1] # k[2] /\ arch_matrix[k].total = 1 /\ arch_matrix[k].wins = 1

\* the pre-target tournament games between a team of archetype x and one of
\* archetype y
GamesBetween(x, y) ==
    Cardinality({i \in TrainMaskRows :
        {td.rows[i].T1_Archetype, td.rows[i].T2_Archetype} = {x, y}})

\* C23: for every archetype pair, the two archetypes equal or not, the total
\* of its entry is the number of pre-target tournament games between a team
\* of the one and a team of the other; no later game is counted.
C23_TotalIsGamesBetween ==
    /\ \A k \in DOMAIN arch_matrix : arch_matrix[k].total = GamesBetween(k[1], k[2])
    /\ \A i \in TrainMaskRows :
          <<td.rows[i].T1_Archetype, td.rows[i].T2_Archetype>> \in DOMAIN arch_matrix

(***************************************************************************)
(* Unified pipeline, step 2: the fetches, the merge and the team summary   *)
(* Production (BPM) is thousandths, min_pct whole percent,                 *)
(* star_dependency_pct tenths of a percent.                                *)
(***************************************************************************)
\* Config.TOURNAMENT_TEAMS (the first names of the list)
TOURNAMENT_TEAMS == {"Duke", "Auburn", "Iowa St."}

\* s.lower().strip() of the names the model uses
LowerStrip(s) ==
    CASE s = "Duke" -> "duke"
      [] s = "Auburn" -> "auburn"
      [] s = "Iowa St." -> "iowa st."
      [] s = "Siena" -> "siena"
      [] s = "Flagg" -> "flagg"
      [] s = "Flagg " -> "flagg"
      [] s = "Knueppel" -> "knueppel"
      [] s = "Broome" -> "broome"
      [] s = "Doty" -> "doty"
      [] OTHER -> s

\* round(a / b, 0) for a >= 0, b > 0
RoundDiv(a, b) == (2 * a + b) \div (2 * b)

\* fetch_player_stats: resp is what the request gave, ok = FALSE when the
\* request, its status check or its JSON decoding raised.  The columns kept
\* are the ones step 2 reads.
fetch_player_stats(resp) ==
    IF ~resp.ok THEN [player_df |-> {}, failed |-> TRUE]
    ELSE LET df == {p @@ [weighted_bpm |-> Quot(p.bpm * p.min_pct, 100)] : p \in resp.data}
             Dep(team) ==
                 LET grp == {p \in df : p.team = team}
                     total == SumOf({p \in grp : p.weighted_bpm > 0}, "weighted_bpm")
                     top1 == Max({p.weighted_bpm : p \in grp})
                 IN  [team_total_bpm |-> total,
                      star_player |-> (CHOOSE p \in grp : p.weighted_bpm = top1).player,
                      star_player_bpm |-> top1,
                      star_dependency_pct |->
                          IF total > 0 THEN RoundDiv(top1 * 1000, total) ELSE 500]
         IN  [player_df |-> {p @@ Dep(p.team) : p \in df}, failed |-> FALSE]

\* severity_map, with fillna(1) for a status it does not have
Severity(status) ==
    CASE status = "Out" -> 3
      [] status = "Doubtful" -> 2
      [] status = "Questionable" -> 2
      [] status = "Day-To-Day" -> 1
      [] status = "GTD" -> 1
      [] OTHER -> 1

\* the loop over the injuries of the payload: records are appended entry by
\* entry, and an entry whose athlete is null raises inside the try block
\* (ath.get on None), which ends the loop with the records appended so far
RECURSIVE EspnRecords(_)
EspnRecords(entries) ==
    IF entries = << >> THEN << >>
    ELSE IF Head(entries).athlete = None THEN << >>
    ELSE <<[player |-> Head(entries).athlete, injury_status |-> Head(entries).status]>>
            \o EspnRecords(Tail(entries))

\* the try block raised: at the request, or at an entry of the payload
EspnRaises(resp) ==
    ~resp.ok \/ \E i \in 1..Len(resp.entries) : resp.entries[i].athlete = None

\* fetch_injuries_espn: the exception is caught and the table is made of the
\* records there are
fetch_injuries_espn(resp) ==
    LET records == IF resp.ok THEN EspnRecords(resp.entries) ELSE << >>
    IN  [injury_df |-> [i \in 1..Len(records) |->
                            records[i] @@ [severity |-> Severity(records[i].injury_status)]],
         failed |-> EspnRaises(resp)]

\* sev_weight, in tenths
SevWeight(sev) == CASE sev = 3 -> 10 [] sev = 2 -> 5 [] sev = 1 -> 2 [] OTHER -> 0

\* merge_injury_impact: a left merge on the normalised player name (a player
\* with several injury records has a row for each), then the injury columns
merge_injury_impact(players, injuries) ==
    LET Matches(p) ==
            {k \in 1..Len(injuries) : LowerStrip(injuries[k].player) = LowerStrip(p.player)}
        joined ==
            {p @@ [severity |-> injuries[k].severity, inj_row |-> k] :
                    <<p, k>> \in {x \in players \X (1..Len(injuries)) : x[2] \in Matches(x[1])}}
                \cup {p @@ [severity |-> IF injuries = << >> THEN 0 ELSE NaN, inj_row |-> 0] :
                        p \in {q \in players : Matches(q) = {}}}
    IN  {r @@ [is_injured |-> (r.severity # NaN /\ r.severity > 0),
               injury_severity |-> FillNa(r.severity, 0),
               injury_bpm_impact |->
                    IF r.severity # NaN /\ r.severity > 0
                    THEN Quot(r.weighted_bpm * SevWeight(r.severity), 10) ELSE 0] :
            r \in joined}

\* build_team_summary: one record per team of the merged table, the
\* tournament teams kept
build_team_summary(merged, tournament_teams) ==
    LET Rec(team) ==
            LET grp == {r \in merged : r.team = team}
                injured == {r \in grp : r.is_injured}
                star == CHOOSE r \in grp : \A q \in grp : r.weighted_bpm >= q.weighted_bpm
                first == CHOOSE r \in grp : TRUE
            IN  [team |-> team,
                 star_player |-> first.star_player,
                 star_player_bpm |-> first.star_player_bpm,
                 star_dependency_pct |-> first.star_dependency_pct,
                 team_total_bpm |-> first.team_total_bpm,
                 star_is_injured |-> star.is_injured,
                 n_injured |-> Cardinality(injured),
                 team_total_injury_bpm |-> SumOf(injured, "injury_bpm_impact")]
    IN  {Rec(t) : t \in {r.team : r \in merged} \cap tournament_teams}

\* lookup = {row["team"].lower().strip(): row} ; lookup.get(name)
LookupGet(summary, name) ==
    IF \E r \in summary : LowerStrip(r.team) = name
    THEN CHOOSE r \in summary : LowerStrip(r.team) = name
    ELSE Absent

\* what the player request can give: a failure, two payloads
PlayerRow(player, team, bpm, min_pct) ==
    [player |-> player, team |-> team, bpm |-> bpm, min_pct |-> min_pct]

PlayerResponses ==
    {[ok |-> FALSE, data |-> {}],
     [ok |-> TRUE,
      data |-> {PlayerRow("Flagg", "Duke", 12000, 80), PlayerRow("Knueppel", "Duke", 6000, 70),
                PlayerRow("Broome", "Auburn", 11000, 75), PlayerRow("Doty", "Siena", 2000, 60)}],
     [ok |-> TRUE,
      data |-> {PlayerRow("Flagg", "Duke", 10000, 90), PlayerRow("Broome", "Auburn", -2000, 50)}]}

\* what the injury request can give: a failure, and payloads with or without
\* an entry the loop cannot read
EspnEntry(athlete, status) == [athlete |-> athlete, status |-> status]

EspnResponses ==
    {[ok |-> FALSE, entries |-> << >>],
     [ok |-> TRUE, entries |-> << >>],
     [ok |-> TRUE, entries |-> <<EspnEntry("Flagg", "Out")>>],
     [ok |-> TRUE, entries |-> <<EspnEntry("Flagg", "Out"), EspnEntry("Broome", "Questionable")>>],
     [ok |-> TRUE, entries |-> <<EspnEntry("Flagg", "Out"), EspnEntry(None, "Out")>>],
     [ok |-> TRUE, entries |-> <<EspnEntry(None, "Out"), EspnEntry("Flagg", "Out")>>],
     [ok |-> TRUE, entries |-> <<EspnEntry("Knueppel", "Day-To-Day"), EspnEntry("Flagg ", "Probable")>>]}

\* run_step2: the two fetches, the early return for an empty player table,
\* and otherwise the merge, the summary and the patch of the record
RunStep2Fetched ==
    /\ runs < MaxRuns
    /\ \E presp \in PlayerResponses, eresp \in EspnResponses :
        LET players == fetch_player_stats(presp)
            injuries == fetch_injuries_espn(eresp)
            merged_df == merge_injury_impact(players.player_df, injuries.injury_df)
            summary == build_team_summary(merged_df, TOURNAMENT_TEAMS)
            r1 == LookupGet(summary, LowerStrip(Get(pred, "t1_name", "")))
            r2 == LookupGet(summary, LowerStrip(Get(pred, "t2_name", "")))
        IN  /\ player_df' = players.player_df
            /\ injury_df' = injuries.injury_df
            /\ fetch_failed' = (IF players.failed THEN {"player"} ELSE {})
                                    \cup (IF injuries.failed THEN {"injury"} ELSE {})
            /\ IF players.player_df = {}
               THEN UNCHANGED <<pred, lookup, team_summary>>
               ELSE /\ team_summary' = summary
                    /\ lookup' = <<r1, r2>>
                    /\ pred' = PatchPrediction(pred, r1, r2)
    /\ runs' = runs + 1
    /\ UNCHANGED <<pipeVars, seedVars, archVars, statsVars, step1Vars, step1_pred>>

InitFetch ==
    /\ IdlePipe
    /\ IdleStats
    /\ IdleSeed
    /\ IdleArch
    /\ IdleStep1
    /\ IdleFetch
    /\ step1_pred \in {Step1Entry(b, s[1], s[2]) : b \in BaseProbs, s \in SeedPairs}
    /\ pred = step1_pred
    /\ lookup = <<Absent, Absent>>
    /\ runs = 0

NextFetch == RunStep2Fetched

SpecFetch == InitFetch /\ [][NextFetch]_vars

\* C16: when the player fetch failed, the record leaves run_step2 as it
\* entered it; when only the injury fetch failed, the injury table is empty,
\* both adjustments of the record are zero and injury_adjusted is false.
C16_FetchFailureGivesNoPenalty ==
    /\ (runs = 1 /\ "player" \in fetch_failed) => pred = step1_pred
    /\ (runs >= 1 /\ fetch_failed = {"injury"}) =>
          /\ injury_df = << >>
          /\ pred.t1_injury_adj = 0
          /\ pred.t2_injury_adj = 0
          /\ ~pred.injury_adjusted

====
